---------------------------- MODULE Spec2Model ----------------------------
(***************************************************************************)
(* Model of the plant scheduler, the dense entity store and the plant      *)
(* biology of eco-system-evolution (world.py, plant_manager.py,            *)
(* creatures.py).                                                          *)
(*                                                                         *)
(* Representation.  Lengths and coordinates are integers in hundredths of a *)
(* centimetre, areas in hundredths of a square centimetre, energies in     *)
(* millijoules, rates in microjoules per second, times in seconds.         *)
(* Unitless values in [0,1] (temperature, humidity, elevation) and ratios  *)
(* are in hundredths (the radius-to-height factor in ten-thousandths);     *)
(* environmental and soil efficiencies are in thousandths;                 *)
(* aging and hydraulic efficiencies in millionths.  Float operations of    *)
(* the source are computed in this fixed point (pi = 355/113, results      *)
(* rounded as each operator says).                                         *)
(*                                                                         *)
(* Python objects are records held in a heap (world.heap for plants,       *)
(* world.animal_heap for animals); a reference is the handle (heap key).   *)
(***************************************************************************)
EXTENDS Integers, Sequences, FiniteSets, TLC

VARIABLES world, split, whole

vars == <<world, split, whole>>

(***************************************************************************)
(* Bounds of the model.                                                    *)
(***************************************************************************)
\* Number of rows PlantManager allocates at construction; stands for the
\* 1000 of plant_manager.py:21 so that _grow_capacity is reached.
InitialCapacity == 2
\* Largest number of Plant objects constructed in one behaviour of the world.
MaxPlants == 2
\* Largest number of Plant objects constructed in one behaviour of the store.
MaxStorePlants == 3
\* Largest number of dormancy costs a seed that cannot sprout starts with.
MaxDormantTicks == 4
\* Largest number of calls of update_in_bulk in one behaviour.
MaxCalls == 2
\* update_in_bulk is not called once the clock would pass this time.
MaxTime == 97200
\* The time span that is replayed in one call and in two.
ReplaySpan == 14400
\* the number of calls of update_in_bulk made on the stand of two plants
MaxStandCalls == 3

(***************************************************************************)
(* constants.py                                                            *)
(***************************************************************************)
SECONDS_PER_HOUR == 3600
PLANT_LOGIC_UPDATE_INTERVAL_SECONDS == 3600
ANIMAL_UPDATE_TICK_SECONDS == 60
PLANT_COMPETITION_UPDATE_INTERVAL_SECONDS == 86400
UI_LOG_INTERVAL_SECONDS == 2592000
\* energies are in millijoules
CREATURE_INITIAL_ENERGY == 48000000
PLANT_SEED_PROVISIONING_ENERGY == 15000000
PLANT_DORMANCY_METABOLISM_J_PER_HOUR == 10000
PLANT_SPROUTING_ENERGY_COST == 2000000
PLANT_GROWTH_INVESTMENT_J_PER_HOUR == 900000
PLANT_GROWTH_INVESTMENT_ENERGY_RESERVE == 10000000
ANIMAL_METABOLISM_PER_SECOND == 1000
ANIMAL_ENERGY_PER_PLANT == 7500000
CREATURE_REPRODUCTION_ENERGY_COST == CREATURE_INITIAL_ENERGY
\* hundredths of a centimetre (per second)
ANIMAL_SPEED_CM_PER_SEC == 0
ANIMAL_SIGHT_RADIUS_CM == 20000
CREATURE_ID_MIN == 1000
\* hundredths of a centimetre
PLANT_SPROUT_RADIUS_CM == 100
PLANT_SPROUT_CORE_RADIUS_CM == 20
\* hundredths (unitless [0,1] values)
TERRAIN_WATER_LEVEL == 31
TERRAIN_SAND_LEVEL == 32
TERRAIN_GRASS_LEVEL == 57
TERRAIN_DIRT_LEVEL == 59
GERMINATION_HUMIDITY_THRESHOLD == 50
GERMINATION_MIN_TEMP == 40
GERMINATION_MAX_TEMP == 85
PLANT_OPTIMAL_TEMPERATURE == 65
PLANT_TEMPERATURE_TOLERANCE == 20
PLANT_OPTIMAL_HUMIDITY == 60
PLANT_HUMIDITY_TOLERANCE == 30
PLANT_RESPIRATION_REFERENCE_TEMP == 50
PLANT_Q10_INTERVAL_DIVISOR == 20
PLANT_Q10_FACTOR == 2
\* ten-thousandths (the radius-to-height factor)
PLANT_RADIUS_TO_HEIGHT_FACTOR == 20000
PLANT_MAX_SHADE_RADIUS_TO_HEIGHT_FACTOR == 25000
\* hundredths (unitless ratios)
PLANT_MORPHOLOGY_ADAPTATION_RATE == 1
PLANT_IDEAL_CORE_TO_CANOPY_AREA_RATIO == 10
PLANT_CORE_PERSONAL_SPACE_FACTOR == 150
PLANT_ROOT_EFFICIENCY_FACTOR == 2
PLANT_PRUNING_EFFICIENCY == 1
\* millijoules per hundredth of a square centimetre (180 J/cm^2)
PLANT_BIOMASS_ENERGY_COST == 1800
PLANT_CORE_COST_MULTIPLIER == 8
PLANT_CORE_BIOMASS_ENERGY_COST == PLANT_BIOMASS_ENERGY_COST * PLANT_CORE_COST_MULTIPLIER
PLANT_REPRODUCTIVE_INVESTMENT_J_PER_HOUR == 250000
PLANT_FLOWER_ENERGY_COST == 7500000
\* flowers per square centimetre of canopy, in millionths
PLANT_MAX_FLOWERS_PER_CANOPY_AREA == 100
PLANT_FLOWER_LIFESPAN_SECONDS == 604800
PLANT_FRUIT_LIFESPAN_SECONDS == 604800
PLANT_MAX_HYDRAULIC_HEIGHT_CM == 100000
PLANT_SENESCENCE_TIMESCALE_SECONDS == 252288000
\* microjoules per second per hundredth of a square centimetre
\* (0.003 and 0.00075 J/s/cm^2)
PLANT_PHOTOSYNTHESIS_PER_AREA == 30
PLANT_BASE_MAINTENANCE_RESPIRATION_PER_AREA_X2 == 15

Min(a, b) == IF a <= b THEN a ELSE b
Max(a, b) == IF a >= b THEN a ELSE b
Abs(a) == IF a < 0 THEN 0 - a ELSE a

\* Body(v) for v = value: the value is computed once and then named, as an
\* assignment to a local variable does.
With(value, Body(_)) == Body(value)

\* a * b / c of floats, rounded toward zero
scale(a, b, c) == IF a * b >= 0 THEN (a * b) \div c ELSE 0 - ((0 - a * b) \div c)

(***************************************************************************)
(* Environment.  The terrain, temperature and humidity fields are          *)
(* deterministic functions of the coordinates (coherent noise); the model  *)
(* evaluates them on a handful of sites.                                   *)
(***************************************************************************)
Sites ==
  [ s \in 1..6 |->
      CASE s = 1 -> [x |-> 100, y |-> 100, elevation |-> 40, temperature |-> 50, humidity |-> 60]
        [] s = 2 -> [x |-> 130, y |-> 100, elevation |-> 40, temperature |-> 70, humidity |-> 60]
        [] s = 3 -> [x |-> 500, y |-> 100, elevation |-> 31, temperature |-> 30, humidity |-> 60]
        [] s = 4 -> [x |-> 300, y |-> 300, elevation |-> 70, temperature |-> 50, humidity |-> 60]
        [] s = 5 -> [x |-> 300, y |-> 100, elevation |-> 20, temperature |-> 50, humidity |-> 60]
        [] s = 6 -> [x |-> 100, y |-> 300, elevation |-> 40, temperature |-> 50, humidity |-> 60] ]

get_elevation(site) == Sites[site].elevation
get_temperature(site) == Sites[site].temperature
get_humidity(site) == Sites[site].humidity

\* Plant.get_soil_type
get_soil_type(elevation) ==
  IF TERRAIN_WATER_LEVEL <= elevation /\ elevation < TERRAIN_SAND_LEVEL THEN "sand"
  ELSE IF TERRAIN_SAND_LEVEL <= elevation /\ elevation < TERRAIN_GRASS_LEVEL THEN "grass"
  ELSE IF TERRAIN_GRASS_LEVEL <= elevation /\ elevation < TERRAIN_DIRT_LEVEL THEN "dirt"
  ELSE "None"

\* constants.PLANT_SOIL_TYPE_TO_ID; a soil type that is no key raises KeyError.
PLANT_SOIL_TYPE_TO_ID == [sand |-> 0, grass |-> 1, dirt |-> 2]

(***************************************************************************)
(* Creature.__init__ and Plant.__init__.  A fruit of reproductive_organs   *)
(* is a record [type, age, landing] where landing is the site at which its *)
(* seed comes to rest (fixed by the organ's position and the terrain).     *)
(***************************************************************************)
NewPlant(site, initial_energy, id, organs) ==
  LET elevation == get_elevation(site)
      soil == get_soil_type(elevation)
      valid == soil # "None"
  IN [ site |-> site, x |-> Sites[site].x, y |-> Sites[site].y,
       energy |-> IF valid THEN initial_energy ELSE 0,
       age |-> 0,
       is_alive |-> valid,
       id |-> id,
       index |-> -1,
       life_stage |-> "seed",
       radius |-> 0, height |-> 0, root_radius |-> 0, core_radius |-> 0,
       radius_to_height_factor |-> PLANT_RADIUS_TO_HEIGHT_FACTOR,
       reproductive_energy_stored |-> 0,
       reproductive_organs |-> organs,
       has_reached_self_sufficiency |-> FALSE,
       shaded_canopy_area |-> 0,
       overlapped_root_area |-> 0,
       core_growth_since_crush_check |-> 0,
       elevation |-> elevation,
       soil_type |-> soil,
       temperature |-> IF valid THEN get_temperature(site) ELSE -1,
       humidity |-> IF valid THEN get_humidity(site) ELSE -1 ]

(***************************************************************************)
(* PlantManager (plant_manager.py).  arrays is the dictionary of columns,  *)
(* held row-wise: arrays[i] is the record of the values at position i of   *)
(* every column, for i in 0..capacity-1.  plants is the Python list.       *)
(***************************************************************************)
ZeroRow ==
  [ ages |-> 0, heights |-> 0, radii |-> 0, root_radii |-> 0, core_radii |-> 0,
    energies |-> 0, reproductive_energies_stored |-> 0, positions |-> <<0, 0>>,
    soil_type_ids |-> 0, overlapped_root_areas |-> 0, shaded_canopy_areas |-> 0,
    aging_efficiencies |-> 1000000, hydraulic_efficiencies |-> 1000000,
    environmental_efficiencies |-> 1000, soil_efficiencies |-> 1000,
    metabolism_costs_per_second |-> 0, canopy_areas |-> 0,
    photosynthesis_gains_per_second |-> 0 ]

NewPlantManager ==
  [ plants |-> <<>>, capacity |-> InitialCapacity, count |-> 0,
    arrays |-> [i \in 0..(InitialCapacity - 1) |-> ZeroRow] ]

\* Python/NumPy indexing: a negative index counts from the end.
PyIndex(i, len) == IF i < 0 THEN len + i ELSE i

\* A growth that allocates fresh columns of zeros.
GrowCapacity_fresh_columns(pm) ==
  [pm EXCEPT !.capacity = pm.capacity * 2,
             !.arrays = [i \in 0..(pm.capacity * 2 - 1) |-> ZeroRow]]

\* PlantManager._grow_capacity: np.resize repeats the old contents.
GrowCapacity(pm) ==
  LET new_capacity == pm.capacity * 2
  IN [pm EXCEPT !.capacity = new_capacity,
                !.arrays = [i \in 0..(new_capacity - 1) |-> pm.arrays[i % pm.capacity]]]

\* PlantManager.add_plant(plant), for the plant with handle p of w.heap.
\* The lookup of line 64 raises KeyError for a soil type that is no key; by then
\* the index is assigned, the list appended to and eight columns written.
add_plant(w, p) ==
  LET pm0 == w.plant_manager
      pm == IF pm0.count = pm0.capacity THEN GrowCapacity(pm0) ELSE pm0
      plant == w.heap[p]
      n == pm.count
      row1 == [pm.arrays[n] EXCEPT
                 !.ages = plant.age,
                 !.heights = plant.height,
                 !.radii = plant.radius,
                 !.root_radii = plant.root_radius,
                 !.core_radii = plant.core_radius,
                 !.energies = plant.energy,
                 !.reproductive_energies_stored = plant.reproductive_energy_stored,
                 !.positions = <<plant.x, plant.y>>]
      known == plant.soil_type \in DOMAIN PLANT_SOIL_TYPE_TO_ID
      row2 == IF known
              THEN [row1 EXCEPT !.soil_type_ids = PLANT_SOIL_TYPE_TO_ID[plant.soil_type]]
              ELSE row1
  IN [w EXCEPT
        !.heap[p].index = n,
        !.plant_manager = [pm EXCEPT !.plants = Append(pm.plants, p),
                                     !.arrays[n] = row2,
                                     !.count = IF known THEN n + 1 ELSE n],
        !.raised = IF known THEN w.raised ELSE "KeyError"]

\* list.remove(x): drops the first occurrence; ValueError when there is none.
ListRemove(list, x) ==
  LET hits == {i \in 1..Len(list) : list[i] = x}
      first == CHOOSE i \in hits : \A j \in hits : i <= j
  IN SubSeq(list, 1, first - 1) \o SubSeq(list, first + 1, Len(list))

\* The guard of remove_plant, line 207: TRUE when the removal is refused.  It is
\* evaluated only where plants[index] exists.
remove_plant_is_mismatch(pm, plant, p) ==
  \/ plant.index >= pm.count
  \/ pm.plants[PyIndex(plant.index, Len(pm.plants)) + 1] # p

\* A removal whose swap leaves the index of the moved plant alone.
remove_plant_stale_index(w, p) ==
  LET pm == w.plant_manager
      plant == w.heap[p]
      len == Len(pm.plants)
      last_idx == pm.count - 1
  IN IF plant.index < pm.count /\ PyIndex(plant.index, len) \notin 0..(len - 1)
       THEN [w EXCEPT !.raised = "IndexError"]
     ELSE IF remove_plant_is_mismatch(pm, plant, p)
       THEN w
     ELSE [w EXCEPT
             !.plant_manager.arrays[plant.index] = pm.arrays[last_idx],
             !.plant_manager.plants =
                 SubSeq([pm.plants EXCEPT ![plant.index + 1] = pm.plants[last_idx + 1]],
                        1, len - 1),
             !.plant_manager.count = pm.count - 1]

\* A removal whose swap moves the plant object but not its row.
remove_plant_no_row_copy(w, p) ==
  LET pm == w.plant_manager
      plant == w.heap[p]
      len == Len(pm.plants)
      last_idx == pm.count - 1
  IN IF plant.index < pm.count /\ PyIndex(plant.index, len) \notin 0..(len - 1)
       THEN [w EXCEPT !.raised = "IndexError"]
     ELSE IF remove_plant_is_mismatch(pm, plant, p)
       THEN w
     ELSE [w EXCEPT
             !.plant_manager.plants =
                 SubSeq([pm.plants EXCEPT ![plant.index + 1] = pm.plants[last_idx + 1]],
                        1, len - 1),
             !.heap[pm.plants[last_idx + 1]].index = plant.index,
             !.plant_manager.count = pm.count - 1]

\* PlantManager.remove_plant(plant_to_remove).
remove_plant(w, p) ==
  LET pm == w.plant_manager
      plant == w.heap[p]
      len == Len(pm.plants)
      \* plants[index] of line 207 is evaluated when index < count
      out_of_range == plant.index < pm.count
                      /\ PyIndex(plant.index, len) \notin 0..(len - 1)
      idx_to_remove == plant.index
      last_idx == pm.count - 1
      last_plant == pm.plants[last_idx + 1]
  IN IF out_of_range
       THEN [w EXCEPT !.raised = "IndexError"]
     ELSE IF remove_plant_is_mismatch(pm, plant, p)
       THEN IF \E i \in 1..len : pm.plants[i] = p
              THEN [w EXCEPT !.plant_manager.plants = ListRemove(pm.plants, p)]
              ELSE w
     ELSE IF idx_to_remove = last_idx
       THEN [w EXCEPT !.plant_manager.plants = SubSeq(pm.plants, 1, len - 1),
                      !.plant_manager.count = pm.count - 1]
     ELSE [w EXCEPT
             !.plant_manager.arrays[idx_to_remove] = pm.arrays[last_idx],
             !.plant_manager.plants =
                 SubSeq([pm.plants EXCEPT ![idx_to_remove + 1] = last_plant], 1, len - 1),
             !.heap[last_plant].index = idx_to_remove,
             !.plant_manager.count = pm.count - 1]

(***************************************************************************)
(* Arithmetic of the float operations.                                     *)
(***************************************************************************)
RECURSIVE isqrt_search(_, _, _)
isqrt_search(n, lo, hi) ==
  IF lo >= hi THEN lo
  ELSE LET mid == (lo + hi + 1) \div 2
       IN IF mid * mid <= n THEN isqrt_search(n, mid, hi)
                            ELSE isqrt_search(n, lo, mid - 1)

\* floor of the square root
isqrt(n) == isqrt_search(n, 0, Min(n, 46340))

\* np.pi * r**2, rounded to the nearest hundredth of a cm^2
circle_area(r) == (355 * r * r + 5650) \div 11300

\* np.sqrt(area / np.pi), rounded to the nearest hundredth of a cm
radius_of_area(area) == (isqrt((area * 45200) \div 355) + 1) \div 2

RECURSIVE exp_series(_, _, _, _)
exp_series(x, n, term, sum) ==
  IF term = 0 \/ n > 24 THEN sum
  ELSE exp_series(x, n + 1, (term * x) \div (1000 * n), sum + term)

\* np.exp(-x) for x >= 0 in thousandths, in thousandths: the reciprocal of the
\* power series of exp(x)
exp_neg(x) == (1000000 + exp_series(x, 1, 1000, 0) \div 2) \div exp_series(x, 1, 1000, 0)

\* np.exp(-(num / den)) in millionths for a small quotient (den a multiple of
\* 1000): 1 - x + x^2/2
exp_neg_small(num, den) ==
  LET x == (num * 1000) \div (den \div 1000)
  IN 1000000 - x + (x * x) \div 2000000

\* a * e for an efficiency e in millionths
mul_ppm(a, e) == (a * (e \div 1000)) \div 1000 + (a * (e % 1000)) \div 1000000

\* (rate_per_hour / SECONDS_PER_HOUR) * time_step
per_hour(rate_per_hour, time_step) ==
  ((rate_per_hour \div 100) * time_step) \div (SECONDS_PER_HOUR \div 100)

\* rate_per_second * time_step, microjoules per second to millijoules
per_second(rate, time_step) == (rate * time_step) \div 1000

\* the efficiency of PlantGenes for one quantity: exp(-((diff / tolerance)**2))
tolerance_efficiency(value, optimum, tolerance) ==
  LET ratio == (Abs(value - optimum) * 1000) \div tolerance
  IN exp_neg((ratio * ratio) \div 1000)

\* temp_eff * hum_eff of update_environmental_efficiencies and of
\* _patch_all_rates_after_sprout
environmental_efficiency(temperature, humidity) ==
  (tolerance_efficiency(temperature, PLANT_OPTIMAL_TEMPERATURE, PLANT_TEMPERATURE_TOLERANCE)
   * tolerance_efficiency(humidity, PLANT_OPTIMAL_HUMIDITY, PLANT_HUMIDITY_TOLERANCE))
  \div 1000

\* PLANT_Q10_FACTOR ** (temp_difference / PLANT_Q10_INTERVAL_DIVISOR) in
\* thousandths; exact where the difference is a multiple of the interval, as it
\* is at every site.
respiration_factor(temperature) ==
  LET d == temperature - PLANT_RESPIRATION_REFERENCE_TEMP
  IN IF d >= 0 THEN 1000 * PLANT_Q10_FACTOR ^ (d \div PLANT_Q10_INTERVAL_DIVISOR)
     ELSE 1000 \div (PLANT_Q10_FACTOR ^ ((0 - d) \div PLANT_Q10_INTERVAL_DIVISOR))

\* total_area * PLANT_BASE_MAINTENANCE_RESPIRATION_PER_AREA * respiration_factor
metabolism_cost_per_second(radius, root_radius, core_radius, temperature) ==
  LET total_area == circle_area(radius) + circle_area(root_radius) + circle_area(core_radius)
  IN (((total_area * PLANT_BASE_MAINTENANCE_RESPIRATION_PER_AREA_X2) \div 2)
      * respiration_factor(temperature)) \div 1000

\* max_soil_eff * ratio_modifier * root_competition_eff
soil_efficiency(max_soil_eff, radius, root_radius, overlapped_root_area) ==
  LET ratio_modifier ==
        Min(1000, (root_radius * 1000 * PLANT_ROOT_EFFICIENCY_FACTOR) \div (radius + 100))
      root_area == circle_area(root_radius)
      root_competition_eff ==
        IF root_area = 0 THEN 0
        ELSE (Max(0, root_area - overlapped_root_area) * 1000) \div root_area
  IN (((max_soil_eff * ratio_modifier) \div 1000) * root_competition_eff) \div 1000

\* effective_canopy_area * PLANT_PHOTOSYNTHESIS_PER_AREA * environmental *
\* soil * aging * hydraulic efficiency
photosynthesis_gain_per_second(effective_canopy_area, env_eff, soil_eff, aging_eff, hydraulic_eff) ==
  LET a == effective_canopy_area * PLANT_PHOTOSYNTHESIS_PER_AREA
      b == (a * env_eff) \div 1000
      c == (b * soil_eff) \div 1000
  IN mul_ppm(mul_ppm(c, aging_eff), hydraulic_eff)

(***************************************************************************)
(* The vectorized passes of PlantManager over rows 0..count-1.             *)
(***************************************************************************)
\* the site of a position held in the positions column
site_at(position) ==
  CHOOSE s \in DOMAIN Sites : <<Sites[s].x, Sites[s].y>> = position

\* Environment.get_temperatures_vectorized / get_humidities_vectorized, for
\* one row
get_temperatures_vectorized(position) == get_temperature(site_at(position))
get_humidities_vectorized(position) == get_humidity(site_at(position))

\* PlantGenes.soil_efficiency (constants.PLANT_SOIL_EFFICIENCY), in thousandths
PLANT_SOIL_EFFICIENCY == [sand |-> 400, grass |-> 1000, dirt |-> 700]

\* constants.PLANT_SOIL_ID_TO_EFFICIENCY: the same values by soil id
PLANT_SOIL_ID_TO_EFFICIENCY ==
  [id \in 0..2 |-> CASE id = 0 -> PLANT_SOIL_EFFICIENCY["sand"]
                     [] id = 1 -> PLANT_SOIL_EFFICIENCY["grass"]
                     [] id = 2 -> PLANT_SOIL_EFFICIENCY["dirt"]]

\* arrays[...][:count] = f(rows)
MapRows(pm, f(_)) ==
  [pm EXCEPT !.arrays = [i \in DOMAIN pm.arrays |->
                           IF i < pm.count THEN f(pm.arrays[i]) ELSE pm.arrays[i]]]

aging_row(row) ==
  [row EXCEPT !.aging_efficiencies =
                 exp_neg_small(row.ages, PLANT_SENESCENCE_TIMESCALE_SECONDS)]

update_aging_efficiencies(pm) == MapRows(pm, aging_row)

hydraulic_row(row) ==
  [row EXCEPT !.hydraulic_efficiencies =
                 exp_neg_small(row.heights, PLANT_MAX_HYDRAULIC_HEIGHT_CM)]

update_hydraulic_efficiencies(pm) == MapRows(pm, hydraulic_row)

environmental_row(row) ==
  [row EXCEPT !.environmental_efficiencies =
                 environmental_efficiency(get_temperatures_vectorized(row.positions),
                                          get_humidities_vectorized(row.positions))]

update_environmental_efficiencies(pm) == MapRows(pm, environmental_row)

soil_row(row) ==
  [row EXCEPT !.soil_efficiencies =
                 soil_efficiency(PLANT_SOIL_ID_TO_EFFICIENCY[row.soil_type_ids],
                                 row.radii, row.root_radii, row.overlapped_root_areas)]

update_soil_efficiencies(pm) == MapRows(pm, soil_row)

\* PlantManager.update_photosynthesis_gains: the gain rate of every row from
\* its unshaded canopy area and its four efficiencies
photosynthesis_row(row) ==
  [row EXCEPT !.photosynthesis_gains_per_second =
                 photosynthesis_gain_per_second(
                   Max(0, circle_area(row.radii) - row.shaded_canopy_areas),
                   row.environmental_efficiencies, row.soil_efficiencies,
                   row.aging_efficiencies, row.hydraulic_efficiencies)]

update_photosynthesis_gains(pm) == MapRows(pm, photosynthesis_row)

metabolism_row(row) ==
  [row EXCEPT !.canopy_areas = circle_area(row.radii),
              !.metabolism_costs_per_second =
                 metabolism_cost_per_second(row.radii, row.root_radii, row.core_radii,
                                            get_temperatures_vectorized(row.positions))]

update_metabolism_costs(pm) == MapRows(pm, metabolism_row)

\* The six passes at the head of update_in_bulk, in the order of the source.
vectorized_passes(pm) ==
  update_metabolism_costs(
    update_photosynthesis_gains(
      update_soil_efficiencies(
        update_environmental_efficiencies(
          update_hydraulic_efficiencies(
            update_aging_efficiencies(pm))))))

(***************************************************************************)
(* World (world.py).  Besides the fields of the source the record holds    *)
(* the position in update_in_bulk (pc and its local variables), the        *)
(* exception that ended the last call (raised) and obs, a record of what   *)
(* has been observed so far (it is written, never read, by the program).   *)
(***************************************************************************)
NoObs ==
  [first_key |-> -1, last_key |-> -1, last_clock |-> -1, ticks |-> 0, skipped |-> 0,
   born |-> 0]

NewWorld ==
  [ heap |-> <<>>,
    animal_heap |-> <<>>,
    plant_manager |-> NewPlantManager,
    animals |-> <<>>,
    newborns |-> <<>>,
    graveyard |-> <<>>,
    time |-> 0,
    plant_update_schedule |-> [k \in {} |-> <<>>],
    animal_update_schedule |-> [k \in {} |-> <<>>],
    quadtree |-> {},
    next_competition_update_time |-> 0,
    plant_deaths_this_period |-> 0,
    animal_deaths_this_period |-> 0,
    plant_births_this_period |-> 0,
    last_log_time_seconds |-> 0,
    max_plant_radius |-> 0,
    light_grid |-> [c \in {} |-> 0],
    root_grid |-> [c \in {} |-> 0],
    pc |-> "idle",
    start_time |-> 0,
    end_time |-> 0,
    next_event_time |-> 0,
    creatures_to_update |-> <<>>,
    raised |-> "none",
    obs |-> [plant |-> <<>>, animal |-> <<>>, calls |-> 0, rebuilds |-> 0,
             dropped |-> <<>>, last_call |-> [op |-> "none"]] ]

\* A bucketing that rounds up to the next multiple of the interval.
schedule_key_rounds_up(now, delay_seconds, interval) ==
  ((now + delay_seconds) \div interval + 1) * interval

\* schedule_key of schedule_plant_update / schedule_animal_update:
\* int(future_time / interval) * interval
schedule_key(now, delay_seconds, interval) ==
  ((now + delay_seconds) \div interval) * interval

\* dict[key] = [x]: the bucket is started anew.
BucketAppend_replaces(schedule, key, x) ==
  [k \in (DOMAIN schedule) \cup {key} |-> IF k = key THEN <<x>> ELSE schedule[k]]

\* dict[key].append(x), creating the list when the key is new
BucketAppend(schedule, key, x) ==
  IF key \in DOMAIN schedule
  THEN [schedule EXCEPT ![key] = Append(@, x)]
  ELSE [k \in (DOMAIN schedule) \cup {key} |->
          IF k = key THEN <<x>> ELSE schedule[k]]

\* dict.pop(key)
BucketPop(schedule, key) == [k \in (DOMAIN schedule) \ {key} |-> schedule[k]]

\* World.schedule_plant_update(plant, delay_seconds)
schedule_plant_update(w, p, delay_seconds) ==
  LET key == schedule_key(w.time, delay_seconds, PLANT_LOGIC_UPDATE_INTERVAL_SECONDS)
  IN [w EXCEPT
        !.plant_update_schedule = BucketAppend(@, key, p),
        !.obs.plant[p].first_key = IF @ = -1 THEN key ELSE @]

\* World.schedule_animal_update(animal, delay_seconds)
schedule_animal_update(w, a, delay_seconds) ==
  LET key == schedule_key(w.time, delay_seconds, ANIMAL_UPDATE_TICK_SECONDS)
  IN [w EXCEPT
        !.animal_update_schedule = BucketAppend(@, key, a),
        !.obs.animal[a].first_key = IF @ = -1 THEN key ELSE @]

\* QuadTree.insert: the point is kept when the world boundary contains it
\* (every site lies inside the world).
quadtree_insert(w, ref) == [w EXCEPT !.quadtree = @ \cup {ref}]

quadtree_remove(w, ref) == [w EXCEPT !.quadtree = @ \ {ref}]

\* Allocation of a new Plant object: the heap grows by one handle.
Allocate(w, plant) ==
  [w EXCEPT !.heap = Append(@, plant),
            !.obs.plant = Append(@, [NoObs EXCEPT !.born = w.time])]

\* A registration of a newborn that schedules its first tick two intervals
\* ahead.
add_newborn_two_intervals(w, p) ==
  schedule_plant_update(
    quadtree_insert([w EXCEPT !.newborns = Append(@, p),
                              !.plant_births_this_period = @ + 1], <<"plant", p>>),
    p, 2 * PLANT_LOGIC_UPDATE_INTERVAL_SECONDS)

\* World.add_newborn(creature) for a plant
add_newborn(w, p) ==
  LET w1 == [w EXCEPT !.newborns = Append(@, p)]
      w2 == quadtree_insert(w1, <<"plant", p>>)
      w3 == [w2 EXCEPT !.plant_births_this_period = @ + 1]
  IN schedule_plant_update(w3, p, PLANT_LOGIC_UPDATE_INTERVAL_SECONDS)

\* A notification of death that takes the plant out of the store at once.
report_death_unregisters(w, ref) ==
  LET w1 == quadtree_remove([w EXCEPT !.graveyard = Append(@, ref)], ref)
  IN IF ref[1] = "plant"
     THEN remove_plant([w1 EXCEPT !.plant_deaths_this_period = @ + 1], ref[2])
     ELSE [w1 EXCEPT !.animal_deaths_this_period = @ + 1]

\* World.report_death(creature)
report_death(w, ref) ==
  LET w1 == [w EXCEPT !.graveyard = Append(@, ref)]
      w2 == quadtree_remove(w1, ref)
  IN IF ref[1] = "plant"
     THEN [w2 EXCEPT !.plant_deaths_this_period = @ + 1]
     ELSE [w2 EXCEPT !.animal_deaths_this_period = @ + 1]

\* A death that is reported whether or not the plant was alive.
die_reports_again(w, p) ==
  report_death([w EXCEPT !.heap[p].is_alive = FALSE], <<"plant", p>>)

\* Creature.die(world, cause) for a plant
die(w, p) ==
  IF w.heap[p].is_alive
  THEN report_death([w EXCEPT !.heap[p].is_alive = FALSE], <<"plant", p>>)
  ELSE w

\* Creature.die(world, cause) for an animal
animal_die(w, a) ==
  IF w.animal_heap[a].is_alive
  THEN report_death([w EXCEPT !.animal_heap[a].is_alive = FALSE], <<"animal", a>>)
  ELSE w

(***************************************************************************)
(* The competition grids.  A grid is held sparsely: a function from the    *)
(* cells <<gx, gy>> that were written to their values, every other cell    *)
(* being 0 (np.zeros, fill(0)).                                            *)
(***************************************************************************)
\* constants.LIGHT_GRID_CELL_SIZE_CM, in hundredths of a centimetre
LIGHT_GRID_CELL_SIZE_CM == 200
\* constants.py: WORLD_WIDTH_CM and WORLD_HEIGHT_CM, in hundredths
WORLD_WIDTH_CM == 10000000

grid_width == WORLD_WIDTH_CM \div LIGHT_GRID_CELL_SIZE_CM

grid_get(grid, c) == IF c \in DOMAIN grid THEN grid[c] ELSE 0

\* The cells of the bounding box of the circle whose centre lies in the circle
\* (min_gx..max_gx, min_gy..max_gy and the dist_sq mask).
cells_inside(position, radius) ==
  LET x == position[1]
      y == position[2]
      min_gx == Max(0, x - radius) \div LIGHT_GRID_CELL_SIZE_CM
      max_gx == Min((grid_width - 1) * LIGHT_GRID_CELL_SIZE_CM, x + radius)
                  \div LIGHT_GRID_CELL_SIZE_CM
      min_gy == Max(0, y - radius) \div LIGHT_GRID_CELL_SIZE_CM
      max_gy == Min((grid_width - 1) * LIGHT_GRID_CELL_SIZE_CM, y + radius)
                  \div LIGHT_GRID_CELL_SIZE_CM
      centre(g) == g * LIGHT_GRID_CELL_SIZE_CM + LIGHT_GRID_CELL_SIZE_CM \div 2
  IN { c \in (min_gx..max_gx) \X (min_gy..max_gy) :
         (x - centre(c[1])) * (x - centre(c[1])) + (y - centre(c[2])) * (y - centre(c[2]))
           <= radius * radius }

\* grid[cells] = f(grid[cells])
grid_update(grid, cells, f(_)) ==
  [c \in (DOMAIN grid) \cup cells |->
     IF c \in cells THEN f(grid_get(grid, c)) ELSE grid[c]]

\* A loop in which a plant overwrites the height an earlier plant has left in
\* a cell of the light grid.
RECURSIVE populate_rows_overwrites(_, _, _)
populate_rows_overwrites(pm, i, grids) ==
  IF i >= pm.count THEN grids
  ELSE LET row == pm.arrays[i]
           overwrite(v) == row.heights
           add_roots(v) == v + row.root_radii
       IN IF row.radii <= 0 THEN populate_rows_overwrites(pm, i + 1, grids)
          ELSE populate_rows_overwrites(pm, i + 1,
                 [light |-> grid_update(grids.light,
                                        cells_inside(row.positions, row.radii), overwrite),
                  root |-> grid_update(grids.root,
                                       cells_inside(row.positions, row.root_radii), add_roots)])

\* The loop of _populate_competition_grids from row i on.
RECURSIVE populate_rows(_, _, _)
populate_rows(pm, i, grids) ==
  IF i >= pm.count THEN grids
  ELSE LET row == pm.arrays[i]
           raise_to(v) == Max(v, row.heights)
           add_roots(v) == v + row.root_radii
       IN IF row.radii <= 0 THEN populate_rows(pm, i + 1, grids)
          ELSE populate_rows(pm, i + 1,
                 [light |-> grid_update(grids.light,
                                        cells_inside(row.positions, row.radii), raise_to),
                  root |-> grid_update(grids.root,
                                       cells_inside(row.positions, row.root_radii), add_roots)])

\* World._populate_competition_grids
populate_competition_grids(w) ==
  LET empty == [c \in {} |-> 0]
      grids == populate_rows(w.plant_manager, 0, [light |-> empty, root |-> empty])
  IN [w EXCEPT !.light_grid = grids.light, !.root_grid = grids.root]

cell_area == (LIGHT_GRID_CELL_SIZE_CM * LIGHT_GRID_CELL_SIZE_CM) \div 100

\* np.sum(overlap_ratios) * cell_area over the competed cells
RECURSIVE sum_overlap(_, _, _)
sum_overlap(cells, grid, root_radius) ==
  IF cells = {} THEN 0
  ELSE LET c == CHOOSE d \in cells : TRUE
           pressure == grid_get(grid, c)
           share == IF pressure > root_radius
                    THEN ((pressure - root_radius) * cell_area) \div pressure
                    ELSE 0
       IN share + sum_overlap(cells \ {c}, grid, root_radius)

\* A shaded area that is not clamped to the area of the canopy.
shaded_canopy_area_unclamped(w, row) ==
  IF row.radii <= 0 THEN 0
  ELSE Cardinality({c \in cells_inside(row.positions, row.radii) :
                      row.heights < grid_get(w.light_grid, c)}) * cell_area

\* A shaded area that counts the cells in which the plant is not the taller.
shaded_canopy_area_not_taller(w, row) ==
  IF row.radii <= 0 THEN 0
  ELSE Min(Cardinality({c \in cells_inside(row.positions, row.radii) :
                          row.heights <= grid_get(w.light_grid, c)}) * cell_area,
           circle_area(row.radii))

\* shaded_canopy_areas[i] of _calculate_plant_competition
shaded_canopy_area_of(w, row) ==
  IF row.radii <= 0 THEN 0
  ELSE Min(Cardinality({c \in cells_inside(row.positions, row.radii) :
                          row.heights < grid_get(w.light_grid, c)}) * cell_area,
           circle_area(row.radii))

\* overlapped_root_areas[i] of _calculate_plant_competition
overlapped_root_area_of(w, row) ==
  IF row.radii <= 0 THEN 0
  ELSE Min(sum_overlap(cells_inside(row.positions, row.root_radii), w.root_grid, row.root_radii),
           circle_area(row.root_radii))

\* World._calculate_plant_competition: the two columns, then the two fields of
\* every registered plant object
calculate_plant_competition(w) ==
  LET pm == w.plant_manager
      shaded == [i \in 0..(pm.count - 1) |-> shaded_canopy_area_of(w, pm.arrays[i])]
      overlapped == [i \in 0..(pm.count - 1) |-> overlapped_root_area_of(w, pm.arrays[i])]
      slot_of(h) == CHOOSE i \in 0..(pm.count - 1) : pm.plants[i + 1] = h
      registered == {pm.plants[i + 1] : i \in 0..(pm.count - 1)}
  IN [w EXCEPT
        !.plant_manager.arrays =
            [i \in DOMAIN pm.arrays |->
               IF i < pm.count
               THEN [pm.arrays[i] EXCEPT !.overlapped_root_areas = overlapped[i],
                                         !.shaded_canopy_areas = shaded[i]]
               ELSE pm.arrays[i]],
        !.heap =
            [h \in DOMAIN w.heap |->
               IF h \in registered
               THEN [w.heap[h] EXCEPT !.shaded_canopy_area = shaded[slot_of(h)],
                                      !.overlapped_root_area = overlapped[slot_of(h)]]
               ELSE w.heap[h]]]

(***************************************************************************)
(* Plant (creatures.py).  Every operator takes the world and the handle of *)
(* the plant and gives the world after the method has run.                 *)
(***************************************************************************)
\* arrays[column][self.index] = value; a negative index counts from the end of
\* the column
write_column(w, p, column, value) ==
  [w EXCEPT !.plant_manager.arrays[PyIndex(w.heap[p].index, w.plant_manager.capacity)][column]
              = value]

read_column(w, p, column) ==
  w.plant_manager.arrays[PyIndex(w.heap[p].index, w.plant_manager.capacity)][column]

\* self.height = self.radius * self.radius_to_height_factor
height_of(radius, radius_to_height_factor) == (radius * radius_to_height_factor) \div 10000

\* Plant._patch_all_rates_after_sprout
patch_all_rates_after_sprout(w, p) ==
  LET plant == w.heap[p]
      aging == exp_neg_small(plant.age, PLANT_SENESCENCE_TIMESCALE_SECONDS)
      hydraulic == exp_neg_small(plant.height, PLANT_MAX_HYDRAULIC_HEIGHT_CM)
      env == environmental_efficiency(plant.temperature, plant.humidity)
      max_soil_eff == IF plant.soil_type \in DOMAIN PLANT_SOIL_EFFICIENCY
                      THEN PLANT_SOIL_EFFICIENCY[plant.soil_type] ELSE 0
      soil == soil_efficiency(max_soil_eff, plant.radius, plant.root_radius, 0)
      canopy_area == circle_area(plant.radius)
      row == PyIndex(plant.index, w.plant_manager.capacity)
  IN [w EXCEPT !.plant_manager.arrays[row] =
        [@ EXCEPT
           !.aging_efficiencies = aging,
           !.hydraulic_efficiencies = hydraulic,
           !.environmental_efficiencies = env,
           !.soil_efficiencies = soil,
           !.metabolism_costs_per_second =
              metabolism_cost_per_second(plant.radius, plant.root_radius,
                                         plant.core_radius, plant.temperature),
           !.canopy_areas = canopy_area,
           !.photosynthesis_gains_per_second =
              photosynthesis_gain_per_second(canopy_area, env, soil, aging, hydraulic)]]

\* A dormancy that costs nothing: a seed that does not sprout is left as it is.
update_seed_free_dormancy(w, p, time_step) ==
  IF /\ GERMINATION_MIN_TEMP <= w.heap[p].temperature
     /\ w.heap[p].temperature <= GERMINATION_MAX_TEMP
     /\ w.heap[p].humidity >= GERMINATION_HUMIDITY_THRESHOLD
     /\ w.heap[p].energy >= PLANT_SPROUTING_ENERGY_COST
  THEN patch_all_rates_after_sprout(
         [w EXCEPT !.heap[p].energy = @ - PLANT_SPROUTING_ENERGY_COST,
                   !.heap[p].life_stage = "seedling",
                   !.heap[p].radius = PLANT_SPROUT_RADIUS_CM,
                   !.heap[p].root_radius = PLANT_SPROUT_RADIUS_CM,
                   !.heap[p].core_radius = PLANT_SPROUT_CORE_RADIUS_CM], p)
  ELSE w

\* A sprouting that sets the canopy and the roots of the object and nothing else.
update_seed_object_only(w, p, time_step) ==
  [w EXCEPT !.heap[p].energy = @ - per_hour(PLANT_DORMANCY_METABOLISM_J_PER_HOUR, time_step)
                                 - PLANT_SPROUTING_ENERGY_COST,
            !.heap[p].life_stage = "seedling",
            !.heap[p].radius = PLANT_SPROUT_RADIUS_CM,
            !.heap[p].root_radius = PLANT_SPROUT_RADIUS_CM]

\* Plant._update_seed
update_seed(w, p, time_step) ==
  LET dormancy_cost == per_hour(PLANT_DORMANCY_METABOLISM_J_PER_HOUR, time_step)
      energy1 == w.heap[p].energy - dormancy_cost
      w1 == write_column([w EXCEPT !.heap[p].energy = energy1], p, "energies", energy1)
      plant == w1.heap[p]
      temp_ok == GERMINATION_MIN_TEMP <= plant.temperature
                 /\ plant.temperature <= GERMINATION_MAX_TEMP
      humidity_ok == plant.humidity >= GERMINATION_HUMIDITY_THRESHOLD
      energy2 == energy1 - PLANT_SPROUTING_ENERGY_COST
      height == height_of(PLANT_SPROUT_RADIUS_CM, plant.radius_to_height_factor)
      sprouted == [plant EXCEPT !.energy = energy2,
                                !.life_stage = "seedling",
                                !.radius = PLANT_SPROUT_RADIUS_CM,
                                !.root_radius = PLANT_SPROUT_RADIUS_CM,
                                !.core_radius = PLANT_SPROUT_CORE_RADIUS_CM,
                                !.height = height]
      w2 == [w1 EXCEPT !.heap[p] = sprouted,
                       !.plant_manager.arrays[PyIndex(plant.index, w1.plant_manager.capacity)] =
                          [@ EXCEPT !.energies = energy2,
                                    !.heights = height,
                                    !.radii = PLANT_SPROUT_RADIUS_CM,
                                    !.root_radii = PLANT_SPROUT_RADIUS_CM,
                                    !.core_radii = PLANT_SPROUT_CORE_RADIUS_CM]]
  IN IF energy1 <= 0 THEN die(w1, p)
     ELSE IF temp_ok /\ humidity_ok /\ energy1 >= PLANT_SPROUTING_ENERGY_COST
       THEN patch_all_rates_after_sprout(w2, p)
     ELSE w1

\* Plant._calculate_energy_balance: the world with the adapted
\* radius_to_height_factor, and the returned values
calculate_energy_balance(w, p, time_step) ==
  LET plant == w.heap[p]
      canopy_area == circle_area(plant.radius)
      root_area == circle_area(plant.root_radius)
      core_area == circle_area(plant.core_radius)
      target_factor ==
        IF canopy_area > 0
        THEN PLANT_RADIUS_TO_HEIGHT_FACTOR
             + scale(PLANT_MAX_SHADE_RADIUS_TO_HEIGHT_FACTOR - PLANT_RADIUS_TO_HEIGHT_FACTOR,
                     plant.shaded_canopy_area, canopy_area)
        ELSE PLANT_RADIUS_TO_HEIGHT_FACTOR
      factor == plant.radius_to_height_factor
                + scale(target_factor - plant.radius_to_height_factor,
                        PLANT_MORPHOLOGY_ADAPTATION_RATE, 100)
      photosynthesis_gain ==
        per_second(read_column(w, p, "photosynthesis_gains_per_second"), time_step)
      metabolism_cost ==
        per_second(read_column(w, p, "metabolism_costs_per_second"), time_step)
  IN [ world |-> [w EXCEPT !.heap[p].radius_to_height_factor = factor],
       net_energy_production |-> photosynthesis_gain - metabolism_cost,
       photosynthesis_gain |-> photosynthesis_gain,
       metabolism_cost |-> metabolism_cost,
       canopy_area |-> canopy_area,
       root_area |-> root_area,
       core_area |-> core_area ]

\* A pruning that sheds canopy only.
process_self_pruning_canopy_only(w, p, energy_deficit, canopy_area, root_area, core_area, time_step) ==
  LET maintenance_cost_tick ==
        per_second(read_column(w, p, "metabolism_costs_per_second"), time_step)
      shed_fraction == (energy_deficit * 1000) \div maintenance_cost_tick
      radius == radius_of_area(Max(0, canopy_area - (canopy_area * shed_fraction) \div 1000))
  IN IF maintenance_cost_tick > 0
     THEN write_column([w EXCEPT !.heap[p].radius = radius], p, "radii", radius)
     ELSE w

\* Plant._process_self_pruning; the value returned is always 0
process_self_pruning(w, p, energy_deficit, canopy_area, root_area, core_area, time_step) ==
  LET plant == w.heap[p]
      total_sheddable_area == canopy_area + root_area + core_area
      \* maintenance_cost_per_area_tick * total_sheddable_area
      maintenance_cost_tick ==
        IF total_sheddable_area > 0
        THEN per_second(read_column(w, p, "metabolism_costs_per_second"), time_step)
        ELSE 0
      \* area_to_shed / total_sheddable_area, in thousandths
      shed_fraction == ((energy_deficit * 1000) \div maintenance_cost_tick)
                         * PLANT_PRUNING_EFFICIENCY
      radius == radius_of_area(Max(0, canopy_area - (canopy_area * shed_fraction) \div 1000))
      root_radius == radius_of_area(Max(0, root_area - (root_area * shed_fraction) \div 1000))
      core_radius == radius_of_area(Max(0, core_area - (core_area * shed_fraction) \div 1000))
      height == height_of(radius, plant.radius_to_height_factor)
  IN IF maintenance_cost_tick > 0
     THEN [w EXCEPT !.heap[p] = [plant EXCEPT !.radius = radius,
                                              !.root_radius = root_radius,
                                              !.core_radius = core_radius,
                                              !.height = height],
                    !.plant_manager.arrays[PyIndex(plant.index, w.plant_manager.capacity)] =
                       [@ EXCEPT !.heights = height,
                                 !.radii = radius,
                                 !.root_radii = root_radius,
                                 !.core_radii = core_radius]]
     ELSE w

\* constants.PLANT_STABLE_CORE_INVESTMENT_RATIO and
\* constants.PLANT_MIN_CORE_TO_CANOPY_RATIO (hundredths),
\* constants.PLANT_CRUSH_CHECK_GROWTH_THRESHOLD_CM (hundredths of a centimetre)
PLANT_STABLE_CORE_INVESTMENT_RATIO == 20
PLANT_MIN_CORE_TO_CANOPY_RATIO == 2
PLANT_CRUSH_CHECK_GROWTH_THRESHOLD_CM == 25

\* ReproductiveOrgan(parent_plant): a flower of age 0.  Its position on the
\* canopy is drawn at random; landing is the site its seed would roll to.
ReproductiveOrgan(landing) == [type |-> "flower", age |-> 0, landing |-> landing]

\* The reproductive branch of _allocate_surplus_energy (lines 341-367).
invest_in_reproduction(w, p, canopy_area, time_step) ==
  LET plant == w.heap[p]
      desired_repro_investment == per_hour(PLANT_REPRODUCTIVE_INVESTMENT_J_PER_HOUR, time_step)
      available_for_repro == Max(0, plant.energy - PLANT_GROWTH_INVESTMENT_ENERGY_RESERVE)
      actual_repro_investment == Min(desired_repro_investment, available_for_repro)
      energy == plant.energy - actual_repro_investment
      stored == plant.reproductive_energy_stored + actual_repro_investment
      max_flowers == ((canopy_area \div 100) * PLANT_MAX_FLOWERS_PER_CANOPY_AREA) \div 1000000
      allowed_new_flowers == Max(0, max_flowers - Len(plant.reproductive_organs))
      num_new_flowers == Min(stored \div PLANT_FLOWER_ENERGY_COST, allowed_new_flowers)
      stored2 == stored - num_new_flowers * PLANT_FLOWER_ENERGY_COST
      w1 == [w EXCEPT !.heap[p].energy = energy,
                      !.heap[p].reproductive_energy_stored = stored2,
                      !.heap[p].reproductive_organs =
                         @ \o [k \in 1..num_new_flowers |-> ReproductiveOrgan(plant.site)]]
  IN IF actual_repro_investment > 0
     THEN write_column(write_column(w1, p, "energies", energy),
                       p, "reproductive_energies_stored", stored2)
     ELSE w

\* The neighbours of the crush check: the plants of the quadtree inside the
\* square around the plant (Rectangle.contains is half-open), nearer to its
\* centre than its core radius, itself excluded.
crushed_by(w, p) ==
  LET plant == w.heap[p]
      r == plant.core_radius
  IN { h \in DOMAIN w.heap :
         /\ <<"plant", h>> \in w.quadtree
         /\ h # p
         /\ w.heap[h].is_alive
         /\ plant.x - r <= w.heap[h].x /\ w.heap[h].x < plant.x + r
         /\ plant.y - r <= w.heap[h].y /\ w.heap[h].y < plant.y + r
         /\ (plant.x - w.heap[h].x) * (plant.x - w.heap[h].x)
            + (plant.y - w.heap[h].y) * (plant.y - w.heap[h].y) < r * r }

\* neighbor.die(world, "core_crush") for every neighbour, in the order in which
\* the quadtree holds them (the order of insertion, which is the order of the
\* handles)
RECURSIVE die_all(_, _)
die_all(w, hs) ==
  IF hs = {} THEN w
  ELSE LET h == CHOOSE x \in hs : \A y \in hs : x <= y
       IN die_all(die(w, h), hs \ {h})

\* An investment of the desired amount whatever the reserve holds.
investment_from_reserves_desired(plant, time_step) ==
  IF plant.energy > PLANT_GROWTH_INVESTMENT_ENERGY_RESERVE
  THEN per_hour(PLANT_GROWTH_INVESTMENT_J_PER_HOUR, time_step)
  ELSE 0

\* Lines 369-373: what the reserve above the threshold gives to growth.
investment_from_reserves(plant, time_step) ==
  IF plant.energy > PLANT_GROWTH_INVESTMENT_ENERGY_RESERVE
  THEN Min(per_hour(PLANT_GROWTH_INVESTMENT_J_PER_HOUR, time_step),
           plant.energy - PLANT_GROWTH_INVESTMENT_ENERGY_RESERVE)
  ELSE 0

\* Lines 370-375: the investment leaves the plant's energy and its column.
withdraw_from_reserves(w, p, investment) ==
  IF w.heap[p].energy > PLANT_GROWTH_INVESTMENT_ENERGY_RESERVE
  THEN write_column([w EXCEPT !.heap[p].energy = @ - investment],
                    p, "energies", w.heap[p].energy - investment)
  ELSE w

\* Lines 388-407: the share of the growth energy that goes to the core; all of
\* it while the core is below the ideal ratio to a canopy of more than 1 cm2.
core_investment(growth_energy, canopy_area, core_area) ==
  IF canopy_area > 100
     /\ core_area * 100 < PLANT_IDEAL_CORE_TO_CANOPY_AREA_RATIO * canopy_area
  THEN growth_energy
  ELSE (growth_energy * PLANT_STABLE_CORE_INVESTMENT_RATIO) \div 100

\* Lines 388-407: the share that goes to canopy and roots.
canopy_root_investment(growth_energy, canopy_area, core_area) ==
  IF canopy_area > 100
     /\ core_area * 100 < PLANT_IDEAL_CORE_TO_CANOPY_AREA_RATIO * canopy_area
  THEN 0
  ELSE (growth_energy * (100 - PLANT_STABLE_CORE_INVESTMENT_RATIO)) \div 100

\* Lines 418-419
set_core_radius(w, p, core_radius) ==
  write_column([w EXCEPT !.heap[p].core_radius = core_radius],
               p, "core_radii", core_radius)

\* Lines 415-419
grow_core(w, p, investment) ==
  IF investment > 0
  THEN set_core_radius(w, p,
         radius_of_area(circle_area(w.heap[p].core_radius)
                        + investment \div PLANT_CORE_BIOMASS_ENERGY_COST))
  ELSE w

\* Lines 429-438
set_canopy_and_roots(w, p, radius, root_radius) ==
  write_column(write_column(write_column(
    [w EXCEPT !.heap[p].radius = radius,
              !.heap[p].root_radius = root_radius,
              !.heap[p].height = height_of(radius, w.heap[p].radius_to_height_factor)],
    p, "radii", radius), p, "root_radii", root_radius),
    p, "heights", height_of(radius, w.heap[p].radius_to_height_factor))

\* Lines 421-438: the added area is split between canopy and roots by the
\* other one's limiting factor.
grow_canopy_and_roots(w, p, investment, canopy_area, root_area, soil_eff, environmental_eff) ==
  IF investment > 0
  THEN set_canopy_and_roots(w, p,
         radius_of_area(canopy_area
                        + ((investment \div PLANT_BIOMASS_ENERGY_COST) * soil_eff)
                          \div (environmental_eff + soil_eff)),
         radius_of_area(root_area
                        + ((investment \div PLANT_BIOMASS_ENERGY_COST) * environmental_eff)
                          \div (environmental_eff + soil_eff)))
  ELSE w

\* Lines 444-458: once the core has grown by the threshold since the last
\* check, the neighbours inside it die and the counter restarts.
crush_neighbors(w, p, growth_since) ==
  IF growth_since >= PLANT_CRUSH_CHECK_GROWTH_THRESHOLD_CM
  THEN [die_all(w, crushed_by(w, p)) EXCEPT !.heap[p].core_growth_since_crush_check = 0]
  ELSE [w EXCEPT !.heap[p].core_growth_since_crush_check = growth_since]

\* Lines 441-458
crush_check(w, p, old_core_radius) ==
  IF w.heap[p].core_radius > old_core_radius
  THEN crush_neighbors(w, p, w.heap[p].core_growth_since_crush_check
                             + (w.heap[p].core_radius - old_core_radius))
  ELSE w

\* Lines 385-461, given the two limiting factors of lines 409-410.
grow_limited(w, p, growth_energy, canopy_area, root_area, core_area, soil_eff, environmental_eff) ==
  IF growth_energy > 0 /\ environmental_eff + soil_eff > 0
  THEN crush_check(
         grow_canopy_and_roots(
           grow_core(w, p, core_investment(growth_energy, canopy_area, core_area)),
           p, canopy_root_investment(growth_energy, canopy_area, core_area),
           canopy_area, root_area, soil_eff, environmental_eff),
         p, w.heap[p].core_radius)
  ELSE w

\* Lines 385-461
grow(w, p, growth_energy, canopy_area, root_area, core_area) ==
  grow_limited(w, p, growth_energy, canopy_area, root_area, core_area,
               read_column(w, p, "soil_efficiencies"),
               read_column(w, p, "environmental_efficiencies"))

\* A growth that spends what the reserves give and leaves the surplus of the
\* tick to the stored energy.
invest_in_growth_from_reserves_only(w, p, net_energy_production, canopy_area, root_area, core_area, time_step) ==
  grow(withdraw_from_reserves(w, p, investment_from_reserves(w.heap[p], time_step)),
       p, investment_from_reserves(w.heap[p], time_step),
       canopy_area, root_area, core_area)

\* The growth branch of _allocate_surplus_energy (lines 369-461).
invest_in_growth(w, p, net_energy_production, canopy_area, root_area, core_area, time_step) ==
  grow(withdraw_from_reserves(w, p, investment_from_reserves(w.heap[p], time_step)),
       p, Max(0, net_energy_production) + investment_from_reserves(w.heap[p], time_step),
       canopy_area, root_area, core_area)

\* Plant._allocate_surplus_energy; the reproductive branch is guarded by
\* `self.life_stage == "mature" and False`.
allocate_surplus_energy(w, p, net_energy_production, canopy_area, root_area, core_area, time_step) ==
  invest_in_growth(
    IF w.heap[p].life_stage = "mature" /\ FALSE
    THEN invest_in_reproduction(w, p, canopy_area, time_step)
    ELSE w,
    p, net_energy_production, canopy_area, root_area, core_area, time_step)

\* Plant._update_growing_plant
update_growing_plant(w, p, time_step) ==
  With(calculate_energy_balance(w, p, time_step), LAMBDA balance :
  With(balance.net_energy_production < 0, LAMBDA deficit :
  With(balance.world.heap[p].energy > PLANT_GROWTH_INVESTMENT_ENERGY_RESERVE, LAMBDA covered :
  With(IF deficit
       THEN IF covered THEN balance.world
            ELSE process_self_pruning(balance.world, p, Abs(balance.net_energy_production),
                                      balance.canopy_area, balance.root_area,
                                      balance.core_area, time_step)
       ELSE allocate_surplus_energy(balance.world, p, balance.net_energy_production,
                                    balance.canopy_area, balance.root_area,
                                    balance.core_area, time_step), LAMBDA w1 :
  With(IF deficit /\ ~covered THEN 0 ELSE balance.net_energy_production,
       LAMBDA net_energy_production :
  With(w1.heap[p].energy + net_energy_production, LAMBDA energy :
  With(write_column([w1 EXCEPT !.heap[p].energy = energy], p, "energies", energy), LAMBDA w2 :
    IF deficit /\ ~covered /\ w1.heap[p].radius < 10
      THEN die(w1, p)
    ELSE IF energy <= 0
      THEN die(w2, p)
    ELSE IF ~w2.heap[p].has_reached_self_sufficiency /\ net_energy_production > 0
      THEN [w2 EXCEPT !.heap[p].has_reached_self_sufficiency = TRUE,
                      !.heap[p].life_stage = "mature"]
    ELSE w2)))))))

\* ReproductiveOrgan.update
organ_update(organ, time_step) ==
  IF organ.type = "flower" /\ organ.age + time_step > PLANT_FLOWER_LIFESPAN_SECONDS
  THEN [organ EXCEPT !.type = "fruit", !.age = 0]
  ELSE [organ EXCEPT !.age = @ + time_step]

\* ReproductiveOrgan.is_ready_to_drop
is_ready_to_drop(organ) ==
  organ.type = "fruit" /\ organ.age > PLANT_FRUIT_LIFESPAN_SECONDS

\* A dispersal that does not look at the elevation of the landing point.
disperse_seed_succeeds_in_water(w, fruit) ==
  \A h \in DOMAIN w.heap :
    <<"plant", h>> \in w.quadtree
      => ~( w.heap[h].x = Sites[fruit.landing].x /\ w.heap[h].y = Sites[fruit.landing].y )

\* Plant._disperse_seed: TRUE when a seed is created at the landing site of the
\* fruit (not in water, not inside the personal space of a plant of the
\* quadtree that lies in the square of half-width PLANT_CORE_PERSONAL_SPACE_FACTOR
\* around it).
disperse_seed_succeeds(w, fruit) ==
  LET final == Sites[fruit.landing]
      d == PLANT_CORE_PERSONAL_SPACE_FACTOR
  IN /\ final.elevation >= TERRAIN_WATER_LEVEL
     /\ \A h \in DOMAIN w.heap :
          ( /\ <<"plant", h>> \in w.quadtree
            /\ final.x - d <= w.heap[h].x /\ w.heap[h].x < final.x + d
            /\ final.y - d <= w.heap[h].y /\ w.heap[h].y < final.y + d )
          => ~( 10000 * ((final.x - w.heap[h].x) * (final.x - w.heap[h].x)
                         + (final.y - w.heap[h].y) * (final.y - w.heap[h].y))
                < (w.heap[h].core_radius * PLANT_CORE_PERSONAL_SPACE_FACTOR)
                  * (w.heap[h].core_radius * PLANT_CORE_PERSONAL_SPACE_FACTOR) )

\* A loop that sheds the remaining fruits when the energy does not pay for a
\* seed.
RECURSIVE drop_fruits_sheds_rest(_, _, _)
drop_fruits_sheds_rest(w, p, fruits) ==
  IF fruits = <<>> THEN w
  ELSE LET fruit == Head(fruits)
           new_seed == Len(w.heap) + 1
           energy == w.heap[p].energy - PLANT_SEED_PROVISIONING_ENERGY
           w1 == IF energy >= 0 /\ disperse_seed_succeeds(w, fruit)
                 THEN add_newborn(
                        write_column(
                          [Allocate(w, NewPlant(fruit.landing, PLANT_SEED_PROVISIONING_ENERGY,
                                                CREATURE_ID_MIN, <<>>))
                             EXCEPT !.heap[p].energy = energy],
                          p, "energies", energy),
                        new_seed)
                 ELSE w
       IN drop_fruits_sheds_rest(
            [w1 EXCEPT !.heap[p].reproductive_organs = ListRemove(@, fruit),
                       !.obs.dropped = IF energy >= 0 THEN Append(@, fruit.landing) ELSE @],
            p, Tail(fruits))

\* The loop over fruits_to_drop of Plant.update (lines 561-573).
RECURSIVE drop_fruits(_, _, _)
drop_fruits(w, p, fruits) ==
  IF fruits = <<>> \/ w.heap[p].energy < PLANT_SEED_PROVISIONING_ENERGY THEN w
  ELSE LET fruit == Head(fruits)
           new_seed == Len(w.heap) + 1
           energy == w.heap[p].energy - PLANT_SEED_PROVISIONING_ENERGY
           w1 == IF disperse_seed_succeeds(w, fruit)
                 THEN add_newborn(
                        write_column(
                          [Allocate(w, NewPlant(fruit.landing, PLANT_SEED_PROVISIONING_ENERGY,
                                                CREATURE_ID_MIN, <<>>))
                             EXCEPT !.heap[p].energy = energy],
                          p, "energies", energy),
                        new_seed)
                 ELSE w
       IN drop_fruits([w1 EXCEPT !.heap[p].reproductive_organs = ListRemove(@, fruit),
                                 !.obs.dropped = Append(@, fruit.landing)],
                      p, Tail(fruits))

\* A tick that ends without the check of the core against the canopy.
plant_update_unchecked(w, p, time_step) ==
  IF ~w.heap[p].is_alive THEN w
  ELSE
  With(w.heap[p].age + time_step, LAMBDA age :
  With(write_column([w EXCEPT !.heap[p].age = age], p, "ages", age), LAMBDA w1 :
  With(IF w1.heap[p].life_stage = "seed"
       THEN update_seed(w1, p, time_step)
       ELSE update_growing_plant(w1, p, time_step), LAMBDA w2 :
  With([i \in DOMAIN w2.heap[p].reproductive_organs |->
          organ_update(w2.heap[p].reproductive_organs[i], time_step)], LAMBDA organs :
    IF w2.heap[p].is_alive /\ w2.heap[p].life_stage = "mature"
    THEN drop_fruits([w2 EXCEPT !.heap[p].reproductive_organs = organs],
                     p, SelectSeq(organs, is_ready_to_drop))
    ELSE w2))))

\* A tick after which a mature plant is a seedling again.
plant_update_forgets_stage(w, p, time_step) ==
  IF ~w.heap[p].is_alive THEN w
  ELSE IF w.heap[p].life_stage = "seed" THEN update_seed(w, p, time_step)
  ELSE [update_growing_plant(w, p, time_step) EXCEPT
          !.heap[p].life_stage = IF w.heap[p].life_stage = "mature" THEN "seedling" ELSE @]

\* A tick of a growing plant that takes a deficit from the stored energy also
\* when the deficit has been paid by pruning.
plant_update_double_penalty(w, p, time_step) ==
  IF ~w.heap[p].is_alive THEN w
  ELSE IF w.heap[p].life_stage = "seed" THEN update_seed(w, p, time_step)
  ELSE [update_growing_plant(w, p, time_step) EXCEPT
          !.heap[p].energy =
             @ + Min(0, calculate_energy_balance(w, p, time_step).net_energy_production)]

\* Plant.update
plant_update(w, p, time_step) ==
  IF ~w.heap[p].is_alive THEN w
  ELSE
  With(w.heap[p].age + time_step, LAMBDA age :
  With(write_column([w EXCEPT !.heap[p].age = age], p, "ages", age), LAMBDA w1 :
  With(IF w1.heap[p].life_stage = "seed"
       THEN update_seed(w1, p, time_step)
       ELSE update_growing_plant(w1, p, time_step), LAMBDA w2 :
  With([i \in DOMAIN w2.heap[p].reproductive_organs |->
          organ_update(w2.heap[p].reproductive_organs[i], time_step)], LAMBDA organs :
  With(IF w2.heap[p].is_alive /\ w2.heap[p].life_stage = "mature"
       THEN drop_fruits([w2 EXCEPT !.heap[p].reproductive_organs = organs],
                        p, SelectSeq(organs, is_ready_to_drop))
       ELSE w2, LAMBDA w3 :
  With(circle_area(w3.heap[p].radius), LAMBDA final_canopy_area :
  With(circle_area(w3.heap[p].core_radius), LAMBDA final_core_area :
    IF /\ w3.heap[p].is_alive
       /\ w3.heap[p].life_stage # "seed"
       /\ final_canopy_area > 100
       /\ final_core_area * 100 < PLANT_MIN_CORE_TO_CANOPY_RATIO * final_canopy_area
    THEN die(w3, p)
    ELSE w3)))))))

(***************************************************************************)
(* Animal (creatures.py).                                                  *)
(***************************************************************************)
NewAnimal(x, y, id) ==
  [ x |-> x, y |-> y, energy |-> CREATURE_INITIAL_ENERGY, age |-> 0, is_alive |-> TRUE,
    id |-> id, target_plant |-> 0 ]

dist_sq(a, b) == (a.x - b.x) * (a.x - b.x) + (a.y - b.y) * (a.y - b.y)

\* Animal.find_closest_plant: a handle, or 0 for None
find_closest_plant(w, a) ==
  LET animal == w.animal_heap[a]
      r == ANIMAL_SIGHT_RADIUS_CM
      nearby == { h \in DOMAIN w.heap :
                    /\ <<"plant", h>> \in w.quadtree
                    /\ w.heap[h].is_alive
                    /\ animal.x - r <= w.heap[h].x /\ w.heap[h].x < animal.x + r
                    /\ animal.y - r <= w.heap[h].y /\ w.heap[h].y < animal.y + r }
  IN IF nearby = {} THEN 0
     ELSE CHOOSE h \in nearby :
            \A g \in nearby :
              \/ dist_sq(animal, w.heap[h]) < dist_sq(animal, w.heap[g])
              \/ (dist_sq(animal, w.heap[h]) = dist_sq(animal, w.heap[g]) /\ h <= g)

\* Animal.update.  With ANIMAL_SPEED_CM_PER_SEC = 0 the animal never moves:
\* the pursuit step and the random walk both add a displacement of length 0.
animal_update(w, a, time_step) ==
  LET animal == w.animal_heap[a]
      energy == animal.energy - ANIMAL_METABOLISM_PER_SECOND * time_step
      w1 == [w EXCEPT !.animal_heap[a].age = @ + time_step,
                      !.animal_heap[a].energy = energy]
      kept == IF animal.target_plant # 0 /\ ~w.heap[animal.target_plant].is_alive
              THEN 0 ELSE animal.target_plant
      target == IF kept = 0 THEN find_closest_plant(w1, a) ELSE kept
      move_dist == ANIMAL_SPEED_CM_PER_SEC * time_step
      reached == target # 0
                 /\ dist_sq(animal, w.heap[target]) < move_dist * move_dist
  IN IF ~animal.is_alive THEN w
     ELSE IF energy <= 0 THEN animal_die(w1, a)
     ELSE IF energy >= CREATURE_REPRODUCTION_ENERGY_COST
       THEN [w1 EXCEPT !.animal_heap[a].energy = energy - CREATURE_REPRODUCTION_ENERGY_COST]
     ELSE IF reached
       THEN die([w1 EXCEPT !.animal_heap[a].x = w.heap[target].x,
                           !.animal_heap[a].y = w.heap[target].y,
                           !.animal_heap[a].energy = energy + ANIMAL_ENERGY_PER_PLANT,
                           !.animal_heap[a].target_plant = 0],
                target)
     ELSE [w1 EXCEPT !.animal_heap[a].target_plant = target]

(***************************************************************************)
(* World._process_housekeeping and the steps of World.update_in_bulk.      *)
(***************************************************************************)
\* The loop over the graveyard; an exception of remove_plant ends it.
RECURSIVE bury(_, _)
bury(w, dead) ==
  IF dead = <<>> \/ w.raised # "none" THEN w
  ELSE LET ref == Head(dead)
       IN IF ref[1] = "plant"
          THEN bury(remove_plant(w, ref[2]), Tail(dead))
          ELSE bury([w EXCEPT !.animals =
                       IF \E i \in 1..Len(@) : @[i] = ref[2] THEN ListRemove(@, ref[2]) ELSE @],
                    Tail(dead))

\* The loop over the newborns; an exception of add_plant ends it.
RECURSIVE register(_, _)
register(w, born) ==
  IF born = <<>> \/ w.raised # "none" THEN w
  ELSE register(add_plant(w, Head(born)), Tail(born))

RECURSIVE max_radius(_, _)
max_radius(pm, i) ==
  IF i >= pm.count THEN 0 ELSE Max(pm.arrays[i].radii, max_radius(pm, i + 1))

\* World._update_max_plant_radius
update_max_plant_radius(w) ==
  [w EXCEPT !.max_plant_radius = max_radius(w.plant_manager, 0)]

\* World._process_housekeeping
process_housekeeping(w) ==
  With(bury(w, w.graveyard), LAMBDA w1 :
  With(IF w1.raised = "none" THEN [w1 EXCEPT !.graveyard = <<>>] ELSE w1, LAMBDA w2 :
  With(register(w2, w2.newborns), LAMBDA w3 :
  With(IF w3.raised = "none" THEN [w3 EXCEPT !.newborns = <<>>] ELSE w3, LAMBDA w4 :
    IF w4.raised # "none" THEN w4
    ELSE update_max_plant_radius(
           IF w4.time - w4.last_log_time_seconds >= UI_LOG_INTERVAL_SECONDS
           THEN [w4 EXCEPT !.last_log_time_seconds = w4.time,
                           !.plant_births_this_period = 0,
                           !.plant_deaths_this_period = 0,
                           !.animal_deaths_this_period = 0]
           ELSE w4)))))

\* Lines 373-381: the vectorized passes, start_time and end_time.
begin_update(w, large_delta_time) ==
  [w EXCEPT !.plant_manager = vectorized_passes(@),
            !.start_time = w.time,
            !.end_time = w.time + large_delta_time,
            !.pc = "competition",
            !.obs.calls = @ + 1,
            !.obs.rebuilds = 0]

\* A loop of line 384 that is never entered.
competition_never_due(w) == FALSE

\* The condition of the loop of line 384.
competition_due(w) == w.next_competition_update_time < w.end_time

\* One turn of the loop of lines 384-391.
competition_update(w) ==
  LET w1 == [w EXCEPT !.time = w.next_competition_update_time]
      w2 == calculate_plant_competition(populate_competition_grids(w1))
  IN [w2 EXCEPT !.next_competition_update_time = @ + PLANT_COMPETITION_UPDATE_INTERVAL_SECONDS,
                !.obs.rebuilds = @ + 1]

\* Line 394.
restore_clock(w) == [w EXCEPT !.time = w.start_time, !.pc = "events"]

\* min(next_plant_time, next_animal_time); -1 stands for float('inf')
next_event(w) ==
  LET keys == (DOMAIN w.plant_update_schedule) \cup (DOMAIN w.animal_update_schedule)
  IN IF keys = {} THEN -1 ELSE CHOOSE k \in keys : \A j \in keys : k <= j

\* The condition of the break of line 404.
event_due(w) == next_event(w) # -1 /\ next_event(w) < w.end_time

Tagged(kind, handles) == [i \in DOMAIN handles |-> <<kind, handles[i]>>]

\* A drain of the buckets that leaves the clock where it was.
pop_bucket_keeps_clock(w) ==
  LET key == next_event(w)
      plants == IF key \in DOMAIN w.plant_update_schedule
                THEN w.plant_update_schedule[key] ELSE <<>>
      animals == IF key \in DOMAIN w.animal_update_schedule
                 THEN w.animal_update_schedule[key] ELSE <<>>
  IN [w EXCEPT !.next_event_time = key,
               !.plant_update_schedule = BucketPop(@, key),
               !.animal_update_schedule = BucketPop(@, key),
               !.creatures_to_update = Tagged("plant", plants) \o Tagged("animal", animals)]

\* Lines 408-415: the clock is set to the key and the buckets of the key are
\* popped, plants first.
pop_bucket(w) ==
  LET key == next_event(w)
      plants == IF key \in DOMAIN w.plant_update_schedule
                THEN w.plant_update_schedule[key] ELSE <<>>
      animals == IF key \in DOMAIN w.animal_update_schedule
                 THEN w.animal_update_schedule[key] ELSE <<>>
  IN [w EXCEPT !.time = key,
               !.next_event_time = key,
               !.plant_update_schedule = BucketPop(@, key),
               !.animal_update_schedule = BucketPop(@, key),
               !.creatures_to_update = Tagged("plant", plants) \o Tagged("animal", animals)]

\* The observation of a tick: the key of the drained bucket and the clock that
\* the update reads.
Observe(w, o) ==
  [o EXCEPT !.last_key = w.next_event_time, !.last_clock = w.time, !.ticks = @ + 1]

\* A dead creature that is put back into the bucket of the next interval.
skip_dead_reschedules(w, ref) ==
  LET w1 == IF ref[1] = "plant"
            THEN [w EXCEPT !.obs.plant[ref[2]].skipped = @ + 1]
            ELSE [w EXCEPT !.obs.animal[ref[2]].skipped = @ + 1]
  IN IF ref[1] = "plant"
     THEN schedule_plant_update(w1, ref[2], PLANT_LOGIC_UPDATE_INTERVAL_SECONDS)
     ELSE schedule_animal_update(w1, ref[2], ANIMAL_UPDATE_TICK_SECONDS)

\* A dead creature that is aged by the interval it is skipped for.
skip_dead_ages(w, ref) ==
  IF ref[1] = "plant"
  THEN [w EXCEPT !.obs.plant[ref[2]].skipped = @ + 1,
                 !.heap[ref[2]].age = @ + PLANT_LOGIC_UPDATE_INTERVAL_SECONDS]
  ELSE [w EXCEPT !.obs.animal[ref[2]].skipped = @ + 1,
                 !.animal_heap[ref[2]].age = @ + ANIMAL_UPDATE_TICK_SECONDS]

\* Line 419 when creature.is_alive is False: the body of the if is not run and
\* the loop goes on to the next creature.
skip_dead(w, ref) ==
  IF ref[1] = "plant"
  THEN [w EXCEPT !.obs.plant[ref[2]].skipped = @ + 1]
  ELSE [w EXCEPT !.obs.animal[ref[2]].skipped = @ + 1]

\* Lines 418-429 for one creature of creatures_to_update.
tick_creature(w, ref) ==
  IF ref[1] = "plant"
  THEN IF w.heap[ref[2]].is_alive
       THEN With(plant_update([w EXCEPT !.obs.plant[ref[2]] = Observe(w, @)], ref[2],
                              PLANT_LOGIC_UPDATE_INTERVAL_SECONDS), LAMBDA w1 :
              IF w1.heap[ref[2]].is_alive
              THEN schedule_plant_update(w1, ref[2], PLANT_LOGIC_UPDATE_INTERVAL_SECONDS)
              ELSE w1)
       ELSE skip_dead(w, ref)
  ELSE IF w.animal_heap[ref[2]].is_alive
       THEN With(animal_update([w EXCEPT !.obs.animal[ref[2]] = Observe(w, @)], ref[2],
                               ANIMAL_UPDATE_TICK_SECONDS), LAMBDA w1 :
              IF w1.animal_heap[ref[2]].is_alive
              THEN schedule_animal_update(w1, ref[2], ANIMAL_UPDATE_TICK_SECONDS)
              ELSE w1)
       ELSE skip_dead(w, ref)

\* A return that runs the housekeeping without setting the clock to end_time.
finalize_keeps_clock(w) ==
  With(process_housekeeping(w), LAMBDA w1 :
    [w1 EXCEPT !.pc = IF w1.raised = "none" THEN "idle" ELSE "crashed"])

\* Lines 432-433; an exception of the housekeeping leaves the call unfinished.
finalize(w) ==
  With(process_housekeeping([w EXCEPT !.time = w.end_time]), LAMBDA w1 :
    [w1 EXCEPT !.pc = IF w1.raised = "none" THEN "idle" ELSE "crashed"])

\* World.populate_world, with the initial plant at the given site
populate_world(w, site, plant_id, animal_id) ==
  LET w1 == Allocate(w, NewPlant(site, CREATURE_INITIAL_ENERGY, plant_id, <<>>))
      w2 == add_plant(w1, 1)
      w3 == schedule_plant_update(w2, 1, PLANT_LOGIC_UPDATE_INTERVAL_SECONDS)
      w4 == quadtree_insert(w3, <<"plant", 1>>)
      w5 == [w4 EXCEPT !.animal_heap = Append(@, NewAnimal(5100000, 5100000, animal_id)),
                       !.obs.animal = Append(@, NoObs),
                       !.animals = Append(@, 1)]
      w6 == schedule_animal_update(w5, 1, ANIMAL_UPDATE_TICK_SECONDS)
  IN quadtree_insert(w6, <<"animal", 1>>)

(***************************************************************************)
(* The world: World() and populate_world(), then calls of update_in_bulk   *)
(* by the main loop, each taken step by step, and between two calls the    *)
(* calls of add_newborn a client of World can make.                        *)
(***************************************************************************)
\* The sites at which INITIAL_PLANT_POSITION can lie (fertile ground).
InitialSites == {1, 2, 3}
\* The sites at which a seed handed to add_newborn lies.
NewbornSites == {2, 4}
\* The values of large_delta_time.
Deltas == {0, 5400, 91800}
\* The draws of random.randint(CREATURE_ID_MIN, CREATURE_ID_MAX).
IdDraws == {CREATURE_ID_MIN}

Init ==
  /\ \E site \in InitialSites, plant_id \in IdDraws, animal_id \in IdDraws :
       world = populate_world(NewWorld, site, plant_id, animal_id)
  /\ split = NewWorld
  /\ whole = NewWorld

\* world.add_newborn(Plant(world, x, y, PLANT_SEED_PROVISIONING_ENERGY))
AddNewborn ==
  /\ world.pc = "idle"
  /\ Len(world.heap) < MaxPlants
  /\ \E site \in NewbornSites, id \in IdDraws :
       /\ \A h \in DOMAIN world.heap : world.heap[h].site # site
       /\ world' = add_newborn(
                     Allocate(world, NewPlant(site, PLANT_SEED_PROVISIONING_ENERGY, id, <<>>)),
                     Len(world.heap) + 1)
  /\ UNCHANGED <<split, whole>>

\* update_in_bulk(large_delta_time) is entered
BeginUpdate ==
  /\ world.pc = "idle"
  /\ world.obs.calls < MaxCalls
  /\ \E large_delta_time \in Deltas :
       /\ world.time + large_delta_time <= MaxTime
       /\ world' = begin_update(world, large_delta_time)
  /\ UNCHANGED <<split, whole>>

CompetitionUpdate ==
  /\ world.pc = "competition"
  /\ competition_due(world)
  /\ world' = competition_update(world)
  /\ UNCHANGED <<split, whole>>

RestoreClock ==
  /\ world.pc = "competition"
  /\ ~competition_due(world)
  /\ world' = restore_clock(world)
  /\ UNCHANGED <<split, whole>>

PopBucket ==
  /\ world.pc = "events"
  /\ world.creatures_to_update = <<>>
  /\ event_due(world)
  /\ world' = pop_bucket(world)
  /\ UNCHANGED <<split, whole>>

TickCreature ==
  /\ world.pc = "events"
  /\ world.creatures_to_update # <<>>
  /\ world' = [tick_creature(world, Head(world.creatures_to_update))
                 EXCEPT !.creatures_to_update = Tail(world.creatures_to_update)]
  /\ UNCHANGED <<split, whole>>

Finalize ==
  /\ world.pc = "events"
  /\ world.creatures_to_update = <<>>
  /\ ~event_due(world)
  /\ world' = finalize(world)
  /\ UNCHANGED <<split, whole>>

Next ==
  \/ AddNewborn
  \/ BeginUpdate
  \/ CompetitionUpdate
  \/ RestoreClock
  \/ PopBucket
  \/ TickCreature
  \/ Finalize

Spec == Init /\ [][Next]_vars

(***************************************************************************)
(* Replay of one time span in two ways from one start state (world, which  *)
(* stays as it is): split is advanced by two calls of update_in_bulk, the  *)
(* first over a cut of the span and the second over the rest, and then     *)
(* whole is advanced by one call over the span.                            *)
(***************************************************************************)
\* The cuts large_delta_time = d1 of the span.
ReplayCuts == {3600, 5400, 9000}

\* One step of a running call of update_in_bulk.
update_in_bulk_step(w) ==
  IF w.pc = "competition"
  THEN IF competition_due(w) THEN competition_update(w) ELSE restore_clock(w)
  ELSE IF w.creatures_to_update # <<>>
  THEN [tick_creature(w, Head(w.creatures_to_update))
          EXCEPT !.creatures_to_update = Tail(w.creatures_to_update)]
  ELSE IF event_due(w) THEN pop_bucket(w) ELSE finalize(w)

Running(w) == w.pc \in {"competition", "events"}

InitReplay ==
  /\ \E site \in InitialSites, plant_id \in IdDraws, animal_id \in IdDraws :
       world = populate_world(NewWorld, site, plant_id, animal_id)
  /\ split = world
  /\ whole = world

\* update_in_bulk(d1), and after its return update_in_bulk(d2)
SplitBegin ==
  /\ split.pc = "idle"
  /\ \/ /\ split.obs.calls = 0
        /\ \E d1 \in ReplayCuts : split' = begin_update(split, d1)
     \/ /\ split.obs.calls = 1
        /\ split' = begin_update(split, world.time + ReplaySpan - split.time)
  /\ UNCHANGED <<world, whole>>

SplitStep ==
  /\ Running(split)
  /\ split' = update_in_bulk_step(split)
  /\ UNCHANGED <<world, whole>>

\* update_in_bulk(d1 + d2), once the two calls have been made
WholeBegin ==
  /\ split.pc = "idle"
  /\ split.obs.calls = 2
  /\ whole.pc = "idle"
  /\ whole.obs.calls = 0
  /\ whole' = begin_update(whole, ReplaySpan)
  /\ UNCHANGED <<world, split>>

WholeStep ==
  /\ Running(whole)
  /\ whole' = update_in_bulk_step(whole)
  /\ UNCHANGED <<world, split>>

NextReplay == SplitBegin \/ SplitStep \/ WholeBegin \/ WholeStep

SpecReplay == InitReplay /\ [][NextReplay]_vars

(***************************************************************************)
(* A stand of two plants: the initial plant and a seed that a client hands *)
(* to add_newborn two centimetres away from it, out of reach of its core   *)
(* and under its canopy once that has grown.  The calls of update_in_bulk  *)
(* are long enough for the younger plant to be shaded at a rebuild of the  *)
(* competition grids and to run short of energy afterwards.                *)
(***************************************************************************)
\* The sites of the seed (2 cm from the initial plant, which stands at site 1).
StandSites == {6}
\* The values of large_delta_time.
StandDeltas == {5400, 91800}

InitStand ==
  /\ \E plant_id \in IdDraws, animal_id \in IdDraws :
       world = populate_world(NewWorld, 1, plant_id, animal_id)
  /\ split = NewWorld
  /\ whole = NewWorld

\* world.add_newborn(Plant(world, x, y, PLANT_SEED_PROVISIONING_ENERGY))
StandSow ==
  /\ world.pc = "idle"
  /\ Len(world.heap) < 2
  /\ \E site \in StandSites, id \in IdDraws :
       world' = add_newborn(
                  Allocate(world, NewPlant(site, PLANT_SEED_PROVISIONING_ENERGY, id, <<>>)),
                  Len(world.heap) + 1)
  /\ UNCHANGED <<split, whole>>

\* update_in_bulk(large_delta_time) is entered
StandBegin ==
  /\ world.pc = "idle"
  /\ world.obs.calls < MaxStandCalls
  /\ \E large_delta_time \in StandDeltas :
       world' = begin_update(world, large_delta_time)
  /\ UNCHANGED <<split, whole>>

NextStand ==
  \/ StandSow
  \/ StandBegin
  \/ CompetitionUpdate
  \/ RestoreClock
  \/ PopBucket
  \/ TickCreature
  \/ Finalize

SpecStand == InitStand /\ [][NextStand]_vars

(***************************************************************************)
(* The two passes of the competition on their own: a store of two growing  *)
(* plants of given canopy radius and radius-to-height factor, the second   *)
(* 0.3 cm or 2 cm from the first, is populated and resolved once.          *)
(***************************************************************************)
\* The sites of the second plant; the first stands at site 1.
CanopySites == {2, 6}
\* Canopy radii (hundredths of a centimetre) and radius-to-height factors
\* (ten-thousandths): 200 at the factor of full shade is as high as 250 at
\* the factor of full light, and higher than 240 at the factor of full light.
CanopyRadii == {100, 200, 240, 250}
CanopyFactors == {PLANT_RADIUS_TO_HEIGHT_FACTOR, PLANT_MAX_SHADE_RADIUS_TO_HEIGHT_FACTOR}

\* A plant that has sprouted (_update_seed) and grown to the given radius.
Sapling(site, radius, radius_to_height_factor) ==
  [NewPlant(site, PLANT_SEED_PROVISIONING_ENERGY, CREATURE_ID_MIN, <<>>) EXCEPT
     !.life_stage = "seedling",
     !.radius = radius,
     !.root_radius = radius,
     !.core_radius = PLANT_SPROUT_CORE_RADIUS_CM,
     !.radius_to_height_factor = radius_to_height_factor,
     !.height = height_of(radius, radius_to_height_factor)]

InitCanopy ==
  /\ \E site \in CanopySites, r1 \in CanopyRadii, r2 \in CanopyRadii,
        f1 \in CanopyFactors, f2 \in CanopyFactors :
       world = add_plant(add_plant(Allocate(Allocate(NewWorld, Sapling(1, r1, f1)),
                                            Sapling(site, r2, f2)), 1), 2)
  /\ split = NewWorld
  /\ whole = NewWorld

\* _populate_competition_grids() followed by _calculate_plant_competition()
Resolve ==
  /\ world.obs.rebuilds = 0
  /\ world' = [calculate_plant_competition(populate_competition_grids(world))
                 EXCEPT !.obs.rebuilds = 1]
  /\ UNCHANGED <<split, whole>>

SpecCanopy == InitCanopy /\ [][Resolve]_vars

(***************************************************************************)
(* One tick of one plant.  The world holds the plant that is ticked, at    *)
(* site 1, and a seedling 2 cm from it, both in the store and the          *)
(* quadtree; the call of update_in_bulk has drained the bucket of key 3600 *)
(* and is about to tick the plant.  The stage, the stored energy and the   *)
(* ripe fruits of the plant (given by the sites to which their seeds roll), *)
(* the canopy radius of a plant that has sprouted and the two ids are      *)
(* drawn.                                                                  *)
(***************************************************************************)
\* The canopy radii of the ticked plant (hundredths of a centimetre): the one
\* it sprouts with, and one whose canopy is too wide for the core of a sprout.
TickRadii == {PLANT_SPROUT_RADIUS_CM, 250}

\* The plant that is ticked; its fruits are ready to drop at their next update.
TickedPlant(life_stage, energy, id, landings, radius) ==
  IF life_stage = "seed"
  THEN NewPlant(1, energy, id, <<>>)
  ELSE [Sapling(1, radius, PLANT_RADIUS_TO_HEIGHT_FACTOR) EXCEPT
          !.life_stage = life_stage,
          !.has_reached_self_sufficiency = (life_stage = "mature"),
          !.energy = energy,
          !.id = id,
          !.age = PLANT_LOGIC_UPDATE_INTERVAL_SECONDS,
          !.reproductive_organs =
             IF life_stage = "mature"
             THEN [i \in DOMAIN landings |->
                     [type |-> "fruit", age |-> PLANT_FRUIT_LIFESPAN_SECONDS,
                      landing |-> landings[i]]]
             ELSE <<>>]

InitTick ==
  /\ \E life_stage \in {"seed", "seedling", "mature"},
        energy \in {PLANT_SPROUTING_ENERGY_COST + 10000, PLANT_GROWTH_INVESTMENT_ENERGY_RESERVE,
                    PLANT_GROWTH_INVESTMENT_ENERGY_RESERVE + 13000,
                    PLANT_GROWTH_INVESTMENT_ENERGY_RESERVE + 500000,
                    PLANT_SEED_PROVISIONING_ENERGY, 2 * PLANT_SEED_PROVISIONING_ENERGY},
        landings \in {<<>>, <<5>>, <<3>>, <<6>>, <<5, 3>>, <<3, 5>>},
        id \in {CREATURE_ID_MIN, CREATURE_ID_MIN + 1},
        radius \in TickRadii :
       world =
         [quadtree_insert(quadtree_insert(
            schedule_plant_update(
              add_plant(add_plant(
                Allocate(Allocate(NewWorld,
                                  TickedPlant(life_stage, energy, id, landings, radius)),
                         Sapling(6, PLANT_SPROUT_RADIUS_CM, PLANT_RADIUS_TO_HEIGHT_FACTOR)), 1), 2),
              2, 2 * PLANT_LOGIC_UPDATE_INTERVAL_SECONDS),
            <<"plant", 1>>), <<"plant", 2>>)
          EXCEPT !.plant_manager = vectorized_passes(@),
                 !.pc = "events",
                 !.time = PLANT_LOGIC_UPDATE_INTERVAL_SECONDS,
                 !.next_event_time = PLANT_LOGIC_UPDATE_INTERVAL_SECONDS,
                 !.end_time = PLANT_LOGIC_UPDATE_INTERVAL_SECONDS + 1800,
                 !.next_competition_update_time = PLANT_COMPETITION_UPDATE_INTERVAL_SECONDS,
                 !.creatures_to_update = <<<<"plant", 1>>>>,
                 !.obs.calls = 1]
  /\ split = NewWorld
  /\ whole = NewWorld

SpecTick == InitTick /\ [][TickCreature \/ Finalize]_vars

(***************************************************************************)
(* A postponed first tick.  Between two calls of update_in_bulk a client   *)
(* registers a seed as populate_world does, but schedules it with a delay  *)
(* of three intervals, and then advances the world by four intervals.      *)
(* The seed lies on ground that is too cold to germinate, 4 cm from the    *)
(* initial plant.                                                          *)
(***************************************************************************)
\* plant = Plant(world, x, y, PLANT_SEED_PROVISIONING_ENERGY);
\* plant_manager.add_plant(plant); schedule_plant_update(plant, 3 * interval);
\* quadtree.insert(plant); update_in_bulk(4 * interval)
Postpone ==
  /\ world.pc = "idle"
  /\ Len(world.heap) = 1
  /\ \E id \in IdDraws :
       world' = begin_update(
                  quadtree_insert(
                    schedule_plant_update(
                      add_plant(Allocate(world, NewPlant(3, PLANT_SEED_PROVISIONING_ENERGY,
                                                         id, <<>>)), 2),
                      2, 3 * PLANT_LOGIC_UPDATE_INTERVAL_SECONDS),
                    <<"plant", 2>>),
                  4 * PLANT_LOGIC_UPDATE_INTERVAL_SECONDS)
  /\ UNCHANGED <<split, whole>>

SpecDelay ==
  Init /\ [][Postpone \/ BeginUpdate \/ CompetitionUpdate \/ RestoreClock
              \/ PopBucket \/ TickCreature \/ Finalize]_vars

(***************************************************************************)
(* The dormancy of one seed.  The world holds one seed, registered and     *)
(* scheduled as populate_world does, on ground where it can germinate      *)
(* (site 1) or where it is too cold (site 3), with the energy of a few     *)
(* dormancy costs or a little more than the sprouting cost.  The main loop *)
(* calls update_in_bulk for one plant interval after the other as long as  *)
(* the seed is a living seed; every step of a call is taken eventually.    *)
(***************************************************************************)
DormantEnergies ==
  {k * per_hour(PLANT_DORMANCY_METABOLISM_J_PER_HOUR, PLANT_LOGIC_UPDATE_INTERVAL_SECONDS) :
     k \in 1..MaxDormantTicks}
  \cup {PLANT_SPROUTING_ENERGY_COST
          + per_hour(PLANT_DORMANCY_METABOLISM_J_PER_HOUR, PLANT_LOGIC_UPDATE_INTERVAL_SECONDS)}

InitDormant ==
  /\ \E site \in {1, 3}, energy \in DormantEnergies :
       world = quadtree_insert(
                 schedule_plant_update(
                   add_plant(Allocate(NewWorld, NewPlant(site, energy, CREATURE_ID_MIN, <<>>)), 1),
                   1, PLANT_LOGIC_UPDATE_INTERVAL_SECONDS),
                 <<"plant", 1>>)
  /\ split = NewWorld
  /\ whole = NewWorld

\* update_in_bulk(PLANT_LOGIC_UPDATE_INTERVAL_SECONDS) is entered
DormantBegin ==
  /\ world.pc = "idle"
  /\ world.heap[1].is_alive
  /\ world.heap[1].life_stage = "seed"
  /\ world' = begin_update(world, PLANT_LOGIC_UPDATE_INTERVAL_SECONDS)
  /\ UNCHANGED <<split, whole>>

NextDormant ==
  \/ DormantBegin
  \/ CompetitionUpdate
  \/ RestoreClock
  \/ PopBucket
  \/ TickCreature
  \/ Finalize

\* A step of NextDormant can be taken: a call is running, or the seed is a
\* living seed and the main loop makes the next call.
DormantEnabled ==
  \/ world.pc \in {"competition", "events"}
  \/ world.pc = "idle" /\ world.heap[1].is_alive /\ world.heap[1].life_stage = "seed"

\* Weak fairness of NextDormant, with its enabling condition written out.
SpecDormant ==
  /\ InitDormant
  /\ [][NextDormant]_vars
  /\ ( <>[]DormantEnabled => []<><<NextDormant>>_vars )

(***************************************************************************)
(* The rows of the store when plants die and are born.  The store of       *)
(* InitialCapacity rows holds two saplings whose competition has been      *)
(* resolved; then plants die (Plant.die), seeds are handed to add_newborn, *)
(* and _process_housekeeping empties the graveyard and registers the       *)
(* newborns, as it does at the end of every call of update_in_bulk.        *)
(***************************************************************************)
InitSlots ==
  /\ \E site \in CanopySites, r1 \in CanopyRadii, r2 \in CanopyRadii,
        f1 \in CanopyFactors, f2 \in CanopyFactors :
       world = calculate_plant_competition(populate_competition_grids(
                 quadtree_insert(quadtree_insert(
                   add_plant(add_plant(Allocate(Allocate(NewWorld, Sapling(1, r1, f1)),
                                                Sapling(site, r2, f2)), 1), 2),
                   <<"plant", 1>>), <<"plant", 2>>)))
  /\ split = NewWorld
  /\ whole = NewWorld

\* plant.die(world, cause) for a living plant
Wither ==
  /\ world.raised = "none"
  /\ \E h \in DOMAIN world.heap :
       /\ world.heap[h].is_alive
       /\ world' = die(world, h)
  /\ UNCHANGED <<split, whole>>

\* world.add_newborn(Plant(world, x, y, PLANT_SEED_PROVISIONING_ENERGY))
SlotSow ==
  /\ world.raised = "none"
  /\ Len(world.heap) < MaxStorePlants
  /\ world' = add_newborn(
                Allocate(world, NewPlant(3, PLANT_SEED_PROVISIONING_ENERGY,
                                         CREATURE_ID_MIN, <<>>)),
                Len(world.heap) + 1)
  /\ UNCHANGED <<split, whole>>

\* world._process_housekeeping()
Housekeeping ==
  /\ world.raised = "none"
  /\ world.graveyard # <<>> \/ world.newborns # <<>>
  /\ world' = process_housekeeping(world)
  /\ UNCHANGED <<split, whole>>

SpecSlots == InitSlots /\ [][Wither \/ SlotSow \/ Housekeeping]_vars

(***************************************************************************)
(* The plant store on its own: Plant objects are constructed, registered   *)
(* once each (as populate_world and _process_housekeeping do) and removed  *)
(* in any order, any number of times.  obs.last_call keeps the call and    *)
(* the store and the indices as they were when it was made.                *)
(***************************************************************************)
StoreSites == {1, 2}

IndexOf(w) == [h \in 1..Len(w.heap) |-> w.heap[h].index]

Called(w, op, p) ==
  [op |-> op, p |-> p, plant_manager |-> w.plant_manager, index |-> IndexOf(w)]

InitStore ==
  /\ world = NewWorld
  /\ split = NewWorld
  /\ whole = NewWorld

\* Plant(...) : a new object, not registered (index -1)
StoreConstruct ==
  /\ world.raised = "none"
  /\ Len(world.heap) < MaxStorePlants
  /\ \E site \in StoreSites :
       world' = Allocate(world, NewPlant(site, PLANT_SEED_PROVISIONING_ENERGY,
                                         Len(world.heap) + 1, <<>>))
  /\ UNCHANGED <<split, whole>>

\* plant_manager.add_plant(p) for an object that was never registered
StoreAdd ==
  /\ world.raised = "none"
  /\ \E p \in 1..Len(world.heap) :
       /\ world.heap[p].index = -1
       /\ world' = add_plant([world EXCEPT !.obs.last_call = Called(world, "add", p)], p)
  /\ UNCHANGED <<split, whole>>

\* plant_manager.remove_plant(p) for any object
StoreRemove ==
  /\ world.raised = "none"
  /\ \E p \in 1..Len(world.heap) :
       world' = remove_plant([world EXCEPT !.obs.last_call = Called(world, "remove", p)], p)
  /\ UNCHANGED <<split, whole>>

NextStore == StoreConstruct \/ StoreAdd \/ StoreRemove

SpecStore == InitStore /\ [][NextStore]_vars

(***************************************************************************)
(* Properties of the plant store, checked under SpecStore.                 *)
(***************************************************************************)
LastCall == world.obs.last_call

\* The plant of the last call was registered when the call was made: its index
\* named a used row and that slot of the list held it.
WasRegistered ==
  /\ LastCall.index[LastCall.p] \in 0..(LastCall.plant_manager.count - 1)
  /\ LastCall.index[LastCall.p] < Len(LastCall.plant_manager.plants)
  /\ LastCall.plant_manager.plants[LastCall.index[LastCall.p] + 1] = LastCall.p

C9_SwapAndPop ==
  (LastCall.op = "remove" /\ WasRegistered) =>
    LET before == LastCall.plant_manager
        pm == world.plant_manager
        idx == LastCall.index[LastCall.p]
        last_idx == before.count - 1
        last_plant == before.plants[last_idx + 1]
    IN /\ world.raised = "none"
       /\ pm.count = before.count - 1
       /\ pm.capacity = before.capacity
       /\ Len(pm.plants) = Len(before.plants) - 1
       /\ \A i \in 0..(pm.count - 1) :
            /\ i # idx => pm.plants[i + 1] = before.plants[i + 1]
            /\ i # idx => pm.arrays[i] = before.arrays[i]
       /\ idx # last_idx =>
            /\ pm.plants[idx + 1] = last_plant
            /\ pm.arrays[idx] = before.arrays[last_idx]
            /\ world.heap[last_plant].index = idx
       /\ idx = last_idx => pm.arrays = before.arrays
       /\ \A h \in DOMAIN LastCall.index :
            (h # last_plant \/ idx = last_idx) => world.heap[h].index = LastCall.index[h]

\* a swap has happened: the removed plant was not in the last row
C9_Witness ==
  /\ LastCall.op = "remove"
  /\ WasRegistered
  /\ LastCall.index[LastCall.p] < LastCall.plant_manager.count - 1
  /\ world.plant_manager.arrays[LastCall.index[LastCall.p]]
       # LastCall.plant_manager.arrays[LastCall.index[LastCall.p]]

\* C10: remove_plant of a plant that its index does not identify (index -1,
\* index >= count, or a slot holding another plant), the empty store included,
\* raises no exception and leaves count, the list and every row unchanged.
C10_UnregisteredRemovalIsNoOp ==
  (LastCall.op = "remove" /\ ~WasRegistered) =>
    /\ world.raised = "none"
    /\ world.plant_manager = LastCall.plant_manager
    /\ \A h \in DOMAIN LastCall.index : world.heap[h].index = LastCall.index[h]

(***************************************************************************)
(* Properties of update_in_bulk, checked under Spec.                       *)
(***************************************************************************)
PlantObs == world.obs.plant
AnimalObs == world.obs.animal

\* update_in_bulk has returned at least once and no call is running
Returned == world.pc = "idle" /\ world.obs.calls > 0

\* the ticks of an organism so far were at first_key, first_key + interval, ...
\* one tick per key, and all before the end of the window
TickedAtEveryKey(o, interval) ==
  o.ticks > 0 =>
    /\ o.last_key = o.first_key + (o.ticks - 1) * interval
    /\ o.last_key < world.end_time

\* no key below the end of the window is left for a live organism
TickedUpToEnd(o, interval) ==
  IF o.ticks = 0 THEN o.first_key >= world.end_time
  ELSE o.last_key + interval >= world.end_time

\* C1: in update_in_bulk every organism that stays alive is ticked exactly once
\* at each key k with first key <= k < start + delta: its ticks are at its first
\* key and then one interval apart, and on return none of these keys is left.
C1_TickedOncePerKey ==
  /\ \A h \in DOMAIN PlantObs :
       /\ TickedAtEveryKey(PlantObs[h], PLANT_LOGIC_UPDATE_INTERVAL_SECONDS)
       /\ (Returned /\ world.heap[h].is_alive) =>
            TickedUpToEnd(PlantObs[h], PLANT_LOGIC_UPDATE_INTERVAL_SECONDS)
  /\ \A a \in DOMAIN AnimalObs :
       /\ TickedAtEveryKey(AnimalObs[a], ANIMAL_UPDATE_TICK_SECONDS)
       /\ (Returned /\ world.animal_heap[a].is_alive) =>
            TickedUpToEnd(AnimalObs[a], ANIMAL_UPDATE_TICK_SECONDS)

\* a call has returned in which a live plant was ticked at several keys
C1_Witness ==
  /\ Returned
  /\ \E h \in DOMAIN PlantObs :
       /\ world.heap[h].is_alive
       /\ PlantObs[h].ticks >= 3
       /\ PlantObs[h].first_key >= world.start_time
  /\ \E a \in DOMAIN AnimalObs : AnimalObs[a].ticks >= 3

\* C2: whenever the update of an organism runs inside update_in_bulk the clock
\* equals the key of the bucket the organism was drained from.
C2_ClockEqualsBucketKey ==
  /\ \A h \in DOMAIN PlantObs : PlantObs[h].ticks > 0 => PlantObs[h].last_clock = PlantObs[h].last_key
  /\ \A a \in DOMAIN AnimalObs :
       AnimalObs[a].ticks > 0 => AnimalObs[a].last_clock = AnimalObs[a].last_key

\* an organism has been ticked at a key strictly inside the window
C2_Witness ==
  /\ world.pc = "events"
  /\ \E h \in DOMAIN PlantObs :
       /\ PlantObs[h].ticks > 0
       /\ PlantObs[h].last_key > world.start_time
       /\ PlantObs[h].last_key < world.end_time - 1
       /\ PlantObs[h].last_clock = world.time

\* the keys that are still in a bucket
PendingKeys(w) == (DOMAIN w.plant_update_schedule) \cup (DOMAIN w.animal_update_schedule)

\* C3: during one update_in_bulk call the clock never moves backwards, and a
\* competition rebuild scheduled at T is performed after every organism tick with
\* key < T (no bucket below T is still waiting when the rebuild is made).
C3_ClockVisitsEventsInOrder ==
  [][ /\ world.pc # "idle" => world'.time >= world.time
      /\ world'.obs.rebuilds > world.obs.rebuilds =>
           \A k \in PendingKeys(world) : k >= world'.time ]_vars

\* C4: within one update_in_bulk call the rebuild scheduled at T has completed
\* before any organism tick with key >= T starts: when a tick is about to run at
\* key k, the next rebuild still to be made lies after k.
C4_RebuildBeforeLaterTicks ==
  (world.pc = "events" /\ world.creatures_to_update # <<>>) =>
    world.next_competition_update_time > world.next_event_time

\* a tick is about to run at a key that is not before a rebuild of this call
C4_Witness ==
  /\ world.pc = "events"
  /\ world.creatures_to_update # <<>>
  /\ world.obs.rebuilds > 0
  /\ world.start_time > 0
  /\ world.next_event_time
       >= world.next_competition_update_time - PLANT_COMPETITION_UPDATE_INTERVAL_SECONDS

\* What is left to do in a running call, as a triple of naturals ordered
\* lexicographically: the loop the call is in, the time from the next rebuild or
\* the bucket in hand to the end of the window, and the creatures of that bucket
\* still to be taken (one more while the bucket has not been popped).
Variant(w) ==
  IF w.pc = "competition"
  THEN <<2, Max(0, w.end_time - w.next_competition_update_time), 0>>
  ELSE IF w.pc = "events"
  THEN IF w.creatures_to_update # <<>>
       THEN <<1, w.end_time - w.next_event_time, Len(w.creatures_to_update)>>
       ELSE IF event_due(w)
       THEN LET key == next_event(w)
                at(schedule) == IF key \in DOMAIN schedule THEN Len(schedule[key]) ELSE 0
            IN <<1, w.end_time - key,
                 at(w.plant_update_schedule) + at(w.animal_update_schedule) + 1>>
       ELSE <<1, 0, 0>>
  ELSE <<0, 0, 0>>

LexLess(a, b) ==
  \/ a[1] < b[1]
  \/ a[1] = b[1] /\ a[2] < b[2]
  \/ a[1] = b[1] /\ a[2] = b[2] /\ a[3] < b[3]

\* C5: update_in_bulk(delta) terminates for every delta >= 0 (every step of a
\* running call lowers a variant over the naturals, so the call ends, by its
\* return or by an exception, after finitely many steps), and when it has
\* returned no bucket has a key below start + delta and the clock equals
\* start + delta.
C5_TerminatesDrained ==
  /\ [](Returned =>
          /\ world.time = world.end_time
          /\ \A k \in PendingKeys(world) : k >= world.end_time)
  /\ [][ world.pc \in {"competition", "events"} =>
           /\ \A i \in 1..3 : Variant(world')[i] >= 0
           /\ LexLess(Variant(world'), Variant(world)) ]_vars

\* a call over a window with buckets in it has returned, the last drained key
\* lying before the end of the window
C5_Witness ==
  /\ Returned
  /\ world.end_time > world.start_time
  /\ world.next_event_time >= world.start_time
  /\ world.next_event_time < world.end_time
  /\ world.time = world.end_time

\* the creature the loop of line 418 is about to take is dead
HeadIsDead ==
  /\ world.pc = "events"
  /\ world.creatures_to_update # <<>>
  /\ LET ref == Head(world.creatures_to_update)
     IN IF ref[1] = "plant" THEN ~world.heap[ref[2]].is_alive
        ELSE ~world.animal_heap[ref[2]].is_alive

\* C7: an organism that is dead when its bucket is drained is not ticked, none
\* of its fields (nor any row of the store) changes, it is not put into any
\* bucket and no error is raised.
C7_DeadOrganismSkipped ==
  [][ HeadIsDead =>
        /\ world'.heap = world.heap
        /\ world'.animal_heap = world.animal_heap
        /\ world'.plant_manager = world.plant_manager
        /\ world'.plant_update_schedule = world.plant_update_schedule
        /\ world'.animal_update_schedule = world.animal_update_schedule
        /\ world'.raised = "none"
        /\ \A h \in DOMAIN PlantObs : world'.obs.plant[h].ticks = PlantObs[h].ticks
        /\ world'.creatures_to_update = Tail(world.creatures_to_update) ]_vars

\* a plant that had been ticked, and was then killed by the tick of another
\* plant, has been passed over when its bucket was drained
C7_Witness ==
  \E h \in DOMAIN PlantObs :
    /\ PlantObs[h].skipped > 0
    /\ PlantObs[h].ticks > 0
    /\ ~world.heap[h].is_alive

(***************************************************************************)
(* Properties of the replay, checked under SpecReplay.                     *)
(***************************************************************************)
\* both replays have returned
Replayed ==
  /\ split.pc = "idle" /\ split.obs.calls = 2
  /\ whole.pc = "idle" /\ whole.obs.calls = 1

\* the ticks of every organism: the first key, the last key and the number
TickEvents(w) ==
  [plant |-> [h \in DOMAIN w.obs.plant |->
                <<w.obs.plant[h].first_key, w.obs.plant[h].last_key, w.obs.plant[h].ticks>>],
   animal |-> [a \in DOMAIN w.obs.animal |->
                <<w.obs.animal[a].first_key, w.obs.animal[a].last_key, w.obs.animal[a].ticks>>]]

\* C6: from the same start state update_in_bulk(d1) followed by update_in_bulk(d2)
\* gives the same tick events, the same final clock, the same scheduler
\* contents, the same store contents and the same state of every plant and
\* animal as a single update_in_bulk(d1 + d2).
C6_ReplayIndependentOfCut ==
  Replayed =>
    /\ TickEvents(split) = TickEvents(whole)
    /\ split.time = whole.time
    /\ split.plant_update_schedule = whole.plant_update_schedule
    /\ split.animal_update_schedule = whole.animal_update_schedule
    /\ split.plant_manager = whole.plant_manager
    /\ split.heap = whole.heap
    /\ split.animal_heap = whole.animal_heap

(***************************************************************************)
(* Properties of births, deaths and the rows of the store, checked under   *)
(* Spec.                                                                   *)
(***************************************************************************)
\* the plant with handle h owns a row: its index names a used row and that
\* slot of the list holds it
OwnsRow(w, h) ==
  /\ 0 <= w.heap[h].index
  /\ w.heap[h].index < w.plant_manager.count
  /\ w.plant_manager.plants[w.heap[h].index + 1] = h

\* the creature the loop of line 418 is about to take is a live plant
HeadIsLivePlant ==
  /\ world.pc = "events"
  /\ world.creatures_to_update # <<>>
  /\ Head(world.creatures_to_update)[1] = "plant"
  /\ world.heap[Head(world.creatures_to_update)[2]].is_alive

HeadPlant == Head(world.creatures_to_update)[2]

\* C11: a plant handed to add_newborn owns a valid row of the store (index in
\* [0, count), plants[index] is the plant) before it is ticked, its first
\* biology tick included.
C11_NewbornOwnsRowBeforeTick ==
  HeadIsLivePlant => OwnsRow(world, HeadPlant)

\* the rows of the store, the list and the count are those of w
SameStore(w1, w) == w1.plant_manager = w.plant_manager

\* the step is the housekeeping at the end of update_in_bulk
IsHousekeeping == world.pc = "events" /\ world'.pc \in {"idle", "crashed"}

\* C12: report_death and add_newborn only queue the organism; neither changes
\* the count, the list of plants or a row of the store, and count and list
\* change by births and deaths only in the housekeeping at the end of the call.
C12_NotificationsOnlyQueue ==
  /\ [](\A h \in DOMAIN world.heap :
          /\ SameStore(report_death(world, <<"plant", h>>), world)
          /\ SameStore(add_newborn(world, h), world)
          /\ SameStore(die(world, h), world))
  /\ [][ ( \/ world'.plant_manager.count # world.plant_manager.count
           \/ world'.plant_manager.plants # world.plant_manager.plants )
         => IsHousekeeping ]_vars

\* a plant that came through add_newborn and was registered has died, its death
\* is queued and it still holds its row
C12_Witness ==
  \E h \in DOMAIN world.heap :
    /\ h > 1
    /\ ~world.heap[h].is_alive
    /\ \E i \in DOMAIN world.graveyard : world.graveyard[i] = <<"plant", h>>
    /\ OwnsRow(world, h)
    /\ world.pc = "events"

\* C13: the tick of a plant writes no row of the store but the row at the
\* plant's own index, which lies in [0, count) and holds the plant.
C13_TickWritesOwnRowOnly ==
  [][ HeadIsLivePlant =>
        /\ OwnsRow(world, HeadPlant)
        /\ \A i \in DOMAIN world.plant_manager.arrays :
             i # world.heap[HeadPlant].index
               => world'.plant_manager.arrays[i] = world.plant_manager.arrays[i] ]_vars

\* C14: when update_in_bulk has returned every plant in rows [0, count) is
\* alive, and no plant of the list is a seed on invalid terrain.
C14_StoreHoldsLivePlantsOnly ==
  Returned =>
    /\ \A i \in 0..(world.plant_manager.count - 1) :
         world.heap[world.plant_manager.plants[i + 1]].is_alive
    /\ \A i \in 1..Len(world.plant_manager.plants) :
         world.heap[world.plant_manager.plants[i]].soil_type # "None"

(***************************************************************************)
(* Properties of the competition and of the biology of a plant, checked    *)
(* under SpecStand and (C17) SpecCanopy.                                   *)
(***************************************************************************)
\* the row at slot i of the store and the plant object that holds it
RowOf(w, i) == w.plant_manager.arrays[i]
PlantAt(w, i) == w.heap[w.plant_manager.plants[i + 1]]

\* both outputs of the resolution lie between 0 and the area they are part of,
\* in the columns and on the objects
CompetitionWithinArea(w) ==
  \A i \in 0..(w.plant_manager.count - 1) :
    /\ 0 <= RowOf(w, i).shaded_canopy_areas
    /\ RowOf(w, i).shaded_canopy_areas <= circle_area(RowOf(w, i).radii)
    /\ 0 <= RowOf(w, i).overlapped_root_areas
    /\ RowOf(w, i).overlapped_root_areas <= circle_area(RowOf(w, i).root_radii)
    /\ 0 <= PlantAt(w, i).shaded_canopy_area
    /\ PlantAt(w, i).shaded_canopy_area <= circle_area(PlantAt(w, i).radius)
    /\ 0 <= PlantAt(w, i).overlapped_root_area
    /\ PlantAt(w, i).overlapped_root_area <= circle_area(PlantAt(w, i).root_radius)

\* C15: immediately after _populate_competition_grids and
\* _calculate_plant_competition every plant of the store has
\* 0 <= shaded_canopy_area <= pi*radius^2 and
\* 0 <= overlapped_root_area <= pi*root_radius^2, in its row and on the object.
C15_CompetitionWithinArea ==
  [][ world'.obs.rebuilds > world.obs.rebuilds => CompetitionWithinArea(world') ]_vars

\* a rebuild has just been made in which the one shaded cell of a plant is
\* larger than its canopy
C15_Witness ==
  /\ world.pc = "competition"
  /\ world.obs.rebuilds > 0
  /\ \E i \in 0..(world.plant_manager.count - 1) :
       /\ RowOf(world, i).radii > 0
       /\ RowOf(world, i).shaded_canopy_areas = circle_area(RowOf(world, i).radii)
       /\ cell_area > circle_area(RowOf(world, i).radii)

\* the canopy discs of the two plants of the store cover a common cell centre
CanopiesOverlap ==
  cells_inside(RowOf(world, 0).positions, RowOf(world, 0).radii)
    \cap cells_inside(RowOf(world, 1).positions, RowOf(world, 1).radii) # {}

\* the plant at slot i is shaded, the plant at slot j is not
ShadedNotShaded(i, j) ==
  /\ RowOf(world, i).shaded_canopy_areas > 0
  /\ PlantAt(world, i).shaded_canopy_area > 0
  /\ RowOf(world, j).shaded_canopy_areas = 0
  /\ PlantAt(world, j).shaded_canopy_area = 0

\* C17: of two plants whose canopy discs cover a common cell centre, after
\* populate and resolve the strictly shorter one has shaded_canopy_area > 0 and
\* the taller one 0; two plants of equal height shade neither.
C17_ShorterPlantIsShaded ==
  (world.obs.rebuilds = 1 /\ CanopiesOverlap) =>
    /\ RowOf(world, 0).heights < RowOf(world, 1).heights => ShadedNotShaded(0, 1)
    /\ RowOf(world, 1).heights < RowOf(world, 0).heights => ShadedNotShaded(1, 0)
    /\ RowOf(world, 0).heights = RowOf(world, 1).heights
         => /\ RowOf(world, 0).shaded_canopy_areas = 0
            /\ RowOf(world, 1).shaded_canopy_areas = 0
            /\ PlantAt(world, 0).shaded_canopy_area = 0
            /\ PlantAt(world, 1).shaded_canopy_area = 0

\* two plants of different height whose canopies cover a common cell centre
\* have been resolved, and the shorter one is the wider
C17_Witness ==
  /\ world.obs.rebuilds = 1
  /\ CanopiesOverlap
  /\ RowOf(world, 0).heights < RowOf(world, 1).heights
  /\ RowOf(world, 0).radii > RowOf(world, 1).radii
  /\ ShadedNotShaded(0, 1)

\* the cached outputs of the last resolution lie within the areas of today
CachedWithinArea(plant) ==
  /\ plant.shaded_canopy_area <= circle_area(plant.radius)
  /\ plant.overlapped_root_area <= circle_area(plant.root_radius)

\* C16: in every reachable state the cached shaded_canopy_area of a plant is at
\* most its canopy area and its cached overlapped_root_area at most its root
\* area, also after ticks that shrink the radii between two resolutions.
C16_CachedCompetitionWithinArea ==
  \A h \in DOMAIN world.heap : CachedWithinArea(world.heap[h])

\* C18: life_stage never regresses; it changes only from seed to seedling and
\* from seedling to mature, so each change is made at most once and a seed is
\* never mature without having been a seedling.
C18_LifeStageNeverRegresses ==
  [][ \A h \in DOMAIN world.heap :
        \/ world'.heap[h].life_stage = world.heap[h].life_stage
        \/ world.heap[h].life_stage = "seed" /\ world'.heap[h].life_stage = "seedling"
        \/ world.heap[h].life_stage = "seedling" /\ world'.heap[h].life_stage = "mature" ]_vars

\* a plant has gone through both changes and has been ticked since
C18_Witness ==
  \E h \in DOMAIN world.heap :
    /\ world.heap[h].life_stage = "mature"
    /\ PlantObs[h].ticks >= 4
    /\ world.heap[h].energy <= PLANT_GROWTH_INVESTMENT_ENERGY_RESERVE

\* the energy balance the tick of the plant at the head of the bucket starts from
HeadBalance ==
  calculate_energy_balance(world, HeadPlant, PLANT_LOGIC_UPDATE_INTERVAL_SECONDS)

\* the tick that is about to be made prunes: a growing plant with a deficit
\* and no energy above the growth reserve
PruningFires ==
  /\ HeadIsLivePlant
  /\ world.heap[HeadPlant].life_stage # "seed"
  /\ HeadBalance.net_energy_production < 0
  /\ world.heap[HeadPlant].energy <= PLANT_GROWTH_INVESTMENT_ENERGY_RESERVE

\* C19: when self-pruning fires in a tick the energy of the plant after the
\* tick is its energy before it (on the object and in its row), and nothing
\* grows: the deficit is paid in area only.
C19_PruningLeavesEnergy ==
  [][ PruningFires =>
        /\ world'.heap[HeadPlant].energy = world.heap[HeadPlant].energy
        /\ read_column(world', HeadPlant, "energies") = world.heap[HeadPlant].energy
        /\ world'.heap[HeadPlant].radius <= world.heap[HeadPlant].radius
        /\ world'.heap[HeadPlant].root_radius <= world.heap[HeadPlant].root_radius
        /\ world'.heap[HeadPlant].core_radius <= world.heap[HeadPlant].core_radius
        /\ world'.heap[HeadPlant].core_growth_since_crush_check
             = world.heap[HeadPlant].core_growth_since_crush_check ]_vars

\* a plant has been pruned: it is smaller than its row of the last resolution
\* says and it has kept the energy it had
PrunedPlant(h) ==
  /\ world.heap[h].life_stage = "mature"
  /\ world.heap[h].is_alive
  /\ world.heap[h].energy <= PLANT_GROWTH_INVESTMENT_ENERGY_RESERVE
  /\ world.heap[h].shaded_canopy_area > 0
  /\ world.heap[h].radius < PLANT_SPROUT_RADIUS_CM + 20

C19_Witness ==
  \E h \in DOMAIN world.heap : PrunedPlant(h) /\ world.pc = "events"

\* the radius pruning leaves of an area of which shed_fraction thousandths
\* are shed
PrunedRadius(area, shed_fraction) ==
  radius_of_area(Max(0, area - (area * shed_fraction) \div 1000))

\* C20: when self-pruning fires the canopy radius strictly decreases, no
\* radius grows or becomes negative, and canopy, root and core lose the same
\* fraction of their areas (each its share of the area shed).
C20_PruningShedsInProportion ==
  [][ PruningFires =>
        /\ world'.heap[HeadPlant].radius < world.heap[HeadPlant].radius
        /\ world'.heap[HeadPlant].root_radius <= world.heap[HeadPlant].root_radius
        /\ world'.heap[HeadPlant].core_radius <= world.heap[HeadPlant].core_radius
        /\ world'.heap[HeadPlant].radius >= 0
        /\ world'.heap[HeadPlant].root_radius >= 0
        /\ world'.heap[HeadPlant].core_radius >= 0
        /\ \E shed_fraction \in 1..1000 :
             /\ world'.heap[HeadPlant].radius
                  = PrunedRadius(HeadBalance.canopy_area, shed_fraction)
             /\ world'.heap[HeadPlant].root_radius
                  = PrunedRadius(HeadBalance.root_area, shed_fraction)
             /\ world'.heap[HeadPlant].core_radius
                  = PrunedRadius(HeadBalance.core_area, shed_fraction) ]_vars

\* a pruned plant of which canopy, root and core are all left
C20_Witness ==
  \E h \in DOMAIN world.heap :
    /\ PrunedPlant(h)
    /\ world.heap[h].root_radius > 0
    /\ world.heap[h].core_radius > 0
    /\ world.pc = "idle"

\* the store of two plants with its two rows exchanged
SwapRows(w) ==
  LET pm == w.plant_manager
  IN [w EXCEPT
        !.plant_manager.plants = <<pm.plants[2], pm.plants[1]>>,
        !.plant_manager.arrays =
           [i \in DOMAIN pm.arrays |->
              IF i = 0 THEN pm.arrays[1] ELSE IF i = 1 THEN pm.arrays[0] ELSE pm.arrays[i]],
        !.heap = [h \in DOMAIN w.heap |-> [w.heap[h] EXCEPT !.index = 1 - @]]]

\* populate followed by resolve
Resolved(w) == calculate_plant_competition(populate_competition_grids(w))

\* the heights of the plants whose canopy covers the centre of the cell c, and
\* the root radii of the plants whose roots cover it
HeightsOver(c) ==
  {RowOf(world, i).heights : i \in {j \in 0..1 :
     RowOf(world, j).radii > 0
     /\ c \in cells_inside(RowOf(world, j).positions, RowOf(world, j).radii)}}

RootsOver(c, i) ==
  IF RowOf(world, i).radii > 0
     /\ c \in cells_inside(RowOf(world, i).positions, RowOf(world, i).root_radii)
  THEN RowOf(world, i).root_radii ELSE 0

\* C30: the result of populate followed by resolve does not depend on the
\* order of the plants in the store: with the rows exchanged the grids are the
\* same and every plant gets the same shaded_canopy_area and
\* overlapped_root_area, each cell of the light grid holding the maximum height
\* and each cell of the root grid the sum of the root radii of the plants that
\* cover its centre.
C30_CompetitionIndependentOfOrder ==
  /\ Resolved(SwapRows(world)).light_grid = Resolved(world).light_grid
  /\ Resolved(SwapRows(world)).root_grid = Resolved(world).root_grid
  /\ \A h \in DOMAIN world.heap :
        /\ Resolved(SwapRows(world)).heap[h].shaded_canopy_area
             = Resolved(world).heap[h].shaded_canopy_area
        /\ Resolved(SwapRows(world)).heap[h].overlapped_root_area
             = Resolved(world).heap[h].overlapped_root_area
  /\ \A c \in DOMAIN Resolved(world).light_grid :
        /\ Resolved(world).light_grid[c] \in HeightsOver(c)
        /\ \A height \in HeightsOver(c) : height <= Resolved(world).light_grid[c]
  /\ \A c \in DOMAIN Resolved(world).root_grid :
        Resolved(world).root_grid[c] = RootsOver(c, 0) + RootsOver(c, 1)

\* two plants of different height and different radius whose canopies and
\* roots overlap have been resolved
C30_Witness ==
  /\ world.obs.rebuilds = 1
  /\ CanopiesOverlap
  /\ RowOf(world, 0).heights > RowOf(world, 1).heights
  /\ RowOf(world, 0).radii # RowOf(world, 1).radii
  /\ RowOf(world, 0).overlapped_root_areas > 0
  /\ RowOf(world, 1).shaded_canopy_areas > 0
  /\ world.light_grid = Resolved(SwapRows(world)).light_grid

(***************************************************************************)
(* Properties of the life of one organism, checked under Spec and          *)
(* SpecTick.                                                               *)
(***************************************************************************)
\* the dormancy cost of one plant tick
DormancyCost ==
  (PLANT_DORMANCY_METABOLISM_J_PER_HOUR * PLANT_LOGIC_UPDATE_INTERVAL_SECONDS)
    \div SECONDS_PER_HOUR

\* the plant the loop is about to tick is a seed that can germinate
HeadSeedCanSprout ==
  /\ HeadIsLivePlant
  /\ world.heap[HeadPlant].life_stage = "seed"
  /\ GERMINATION_MIN_TEMP <= world.heap[HeadPlant].temperature
  /\ world.heap[HeadPlant].temperature <= GERMINATION_MAX_TEMP
  /\ world.heap[HeadPlant].humidity >= GERMINATION_HUMIDITY_THRESHOLD
  /\ world.heap[HeadPlant].energy - DormancyCost >= PLANT_SPROUTING_ENERGY_COST

\* C21: a seed whose cached temperature and humidity pass the germination gate
\* and whose energy after the dormancy cost covers the sprouting cost is a
\* seedling after that one tick, with radius = root_radius =
\* PLANT_SPROUT_RADIUS_CM, core_radius = PLANT_SPROUT_CORE_RADIUS_CM and energy
\* lower by exactly the dormancy cost plus the sprouting cost, and the row at
\* the index of the plant holds the same values.
C21_SeedSproutsInOneTick ==
  [][ HeadSeedCanSprout =>
        /\ world'.heap[HeadPlant].is_alive
        /\ world'.heap[HeadPlant].life_stage = "seedling"
        /\ world'.heap[HeadPlant].radius = PLANT_SPROUT_RADIUS_CM
        /\ world'.heap[HeadPlant].root_radius = PLANT_SPROUT_RADIUS_CM
        /\ world'.heap[HeadPlant].core_radius = PLANT_SPROUT_CORE_RADIUS_CM
        /\ world'.heap[HeadPlant].energy
             = world.heap[HeadPlant].energy - DormancyCost - PLANT_SPROUTING_ENERGY_COST
        /\ read_column(world', HeadPlant, "energies") = world'.heap[HeadPlant].energy
        /\ read_column(world', HeadPlant, "radii") = PLANT_SPROUT_RADIUS_CM
        /\ read_column(world', HeadPlant, "root_radii") = PLANT_SPROUT_RADIUS_CM
        /\ read_column(world', HeadPlant, "core_radii") = PLANT_SPROUT_CORE_RADIUS_CM ]_vars

\* the initial plant has sprouted at its first tick and holds its row
C21_Witness ==
  /\ world.pc = "events"
  /\ PlantObs[1].ticks = 1
  /\ OwnsRow(world, 1)
  /\ world.heap[1].life_stage = "seedling"
  /\ world.heap[1].energy = CREATURE_INITIAL_ENERGY - DormancyCost - PLANT_SPROUTING_ENERGY_COST
  /\ RowOf(world, world.heap[1].index).radii = PLANT_SPROUT_RADIUS_CM

Flowers(plant) ==
  Cardinality({i \in DOMAIN plant.reproductive_organs :
                 plant.reproductive_organs[i].type = "flower"})

\* what a tick of the head plant diverts to reproduction: the amount of the
\* interval, limited to what the plant holds above the growth reserve
Diverted ==
  Min((PLANT_REPRODUCTIVE_INVESTMENT_J_PER_HOUR * PLANT_LOGIC_UPDATE_INTERVAL_SECONDS)
        \div SECONDS_PER_HOUR,
      Max(0, world.heap[HeadPlant].energy - PLANT_GROWTH_INVESTMENT_ENERGY_RESERVE))

\* C25: a mature plant ticked with net energy >= 0 diverts a time-proportional
\* amount of energy, limited to what it holds above the growth reserve, into
\* reproductive_energy_stored, and every PLANT_FLOWER_ENERGY_COST of the stored
\* amount becomes a new flower up to the cap of flowers per canopy area.
C25_MaturePlantInvestsInReproduction ==
  [][ ( /\ HeadIsLivePlant
        /\ world.heap[HeadPlant].life_stage = "mature"
        /\ HeadBalance.net_energy_production >= 0
        /\ world'.heap[HeadPlant].is_alive )
      => /\ world'.heap[HeadPlant].reproductive_energy_stored
              + PLANT_FLOWER_ENERGY_COST * Flowers(world'.heap[HeadPlant])
            = world.heap[HeadPlant].reproductive_energy_stored + Diverted
         /\ 1000000 * Flowers(world'.heap[HeadPlant])
            <= (HeadBalance.canopy_area \div 100) * PLANT_MAX_FLOWERS_PER_CANOPY_AREA ]_vars

\* the stored energy the head plant ends its tick with when it carries no
\* reproductive organ
FruitlessEnergy ==
  plant_update([world EXCEPT !.heap[HeadPlant].reproductive_organs = <<>>],
               HeadPlant, PLANT_LOGIC_UPDATE_INTERVAL_SECONDS).heap[HeadPlant].energy

\* the plants created by the step
Created == (Len(world.heap) + 1)..Len(world'.heap)

\* C27: a dropped fruit whose landing point lies below the water level creates
\* no seed, queues no newborn and takes no seed-provisioning energy from the
\* parent: every seed a tick creates lies at or above the water level, the
\* newborns queued are the seeds created, and the parent pays
\* PLANT_SEED_PROVISIONING_ENERGY for each of them and nothing else.
C27_FruitInWaterCreatesNoSeed ==
  [][ HeadIsLivePlant =>
        /\ \A h \in Created : world'.heap[h].elevation >= TERRAIN_WATER_LEVEL
        /\ Len(world'.newborns) = Len(world.newborns) + Cardinality(Created)
        /\ world'.plant_births_this_period
             = world.plant_births_this_period + Cardinality(Created)
        /\ world'.heap[HeadPlant].energy
             = FruitlessEnergy - PLANT_SEED_PROVISIONING_ENERGY * Cardinality(Created) ]_vars

\* a plant that could pay for a seed has dropped a fruit into water and one
\* onto free ground, and one seed has been created
C27_Witness ==
  /\ world.obs.dropped = <<5, 3>>
  /\ get_elevation(5) < TERRAIN_WATER_LEVEL
  /\ PlantObs[1].ticks = 1
  /\ world.heap[1].is_alive
  /\ Len(world.heap) = 3
  /\ Len(world.newborns) = 1
  /\ world.heap[3].site = 3

\* the ids of the organisms that are alive, plants and animals, by handle
LiveIds ==
  LET plants == {h \in DOMAIN world.heap : world.heap[h].is_alive}
      animals == {a \in DOMAIN world.animal_heap : world.animal_heap[a].is_alive}
  IN [plant |-> [h \in plants |-> world.heap[h].id],
      animal |-> [a \in animals |-> world.animal_heap[a].id]]

\* C29: no two organisms that are alive at the same time have the same id.
C29_LiveIdsAreDistinct ==
  /\ \A h1, h2 \in DOMAIN LiveIds.plant : LiveIds.plant[h1] = LiveIds.plant[h2] => h1 = h2
  /\ \A a1, a2 \in DOMAIN LiveIds.animal : LiveIds.animal[a1] = LiveIds.animal[a2] => a1 = a2
  /\ \A h \in DOMAIN LiveIds.plant, a \in DOMAIN LiveIds.animal :
        LiveIds.plant[h] # LiveIds.animal[a]

\* the biological state of a plant and of an animal
Biology(plant) ==
  <<plant.energy, plant.age, plant.radius, plant.root_radius, plant.core_radius,
    plant.height, plant.life_stage>>

AnimalBiology(animal) == <<animal.energy, animal.age, animal.x, animal.y>>

\* C23: once is_alive is false it never becomes true again, and no tick,
\* reschedule or housekeeping step changes the energy, age, radii or life_stage
\* of the dead organism.
C23_DeathIsFinal ==
  [][ /\ \A h \in DOMAIN world.heap :
           ~world.heap[h].is_alive
             => /\ h \in DOMAIN world'.heap
                /\ ~world'.heap[h].is_alive
                /\ Biology(world'.heap[h]) = Biology(world.heap[h])
      /\ \A a \in DOMAIN world.animal_heap :
           ~world.animal_heap[a].is_alive
             => /\ a \in DOMAIN world'.animal_heap
                /\ ~world'.animal_heap[a].is_alive
                /\ AnimalBiology(world'.animal_heap[a]) = AnimalBiology(world.animal_heap[a]) ]_vars

\* a plant that had grown has died, has been found dead in a bucket and has
\* gone through the housekeeping of a call
C23_Witness ==
  \E h \in DOMAIN world.heap :
    /\ ~world.heap[h].is_alive
    /\ world.heap[h].age > 0
    /\ PlantObs[h].skipped >= 1
    /\ Returned

\* how often an organism lies in the graveyard
TimesInGraveyard(w, ref) == Cardinality({i \in DOMAIN w.graveyard : w.graveyard[i] = ref})

\* die(cause) applied to the plant h in the world w: a living plant is dead
\* afterwards and reported once, and a second call changes nothing
DieOnce(w, h) ==
  /\ ~die(w, h).heap[h].is_alive
  /\ die(die(w, h), h) = die(w, h)
  /\ IF w.heap[h].is_alive
     THEN /\ Len(die(w, h).graveyard) = Len(w.graveyard) + 1
          /\ die(w, h).plant_deaths_this_period = w.plant_deaths_this_period + 1
     ELSE die(w, h) = w

\* C24: die(cause) is idempotent: the first call on a living organism sets
\* is_alive to false and reports it once, every further call changes nothing;
\* an organism lies at most once in the graveyard and the deaths counted are
\* at most the dead organisms.
C24_DieIsIdempotent ==
  /\ \A h \in DOMAIN world.heap :
        /\ DieOnce(world, h)
        /\ TimesInGraveyard(world, <<"plant", h>>) <= 1
        /\ TimesInGraveyard(world, <<"plant", h>>) = 1 => ~world.heap[h].is_alive
  /\ \A a \in DOMAIN world.animal_heap :
        /\ animal_die(animal_die(world, a), a) = animal_die(world, a)
        /\ ~world.animal_heap[a].is_alive => animal_die(world, a) = world
        /\ TimesInGraveyard(world, <<"animal", a>>) <= 1
  /\ world.plant_deaths_this_period
       <= Cardinality({h \in DOMAIN world.heap : ~world.heap[h].is_alive})
  /\ world.animal_deaths_this_period
       <= Cardinality({a \in DOMAIN world.animal_heap : ~world.animal_heap[a].is_alive})

\* a plant has died in a tick and lies in the graveyard
C24_Witness ==
  \E h \in DOMAIN world.heap :
    /\ ~world.heap[h].is_alive
    /\ TimesInGraveyard(world, <<"plant", h>>) = 1
    /\ world.plant_deaths_this_period = 1
    /\ world.pc = "events"

\* the tick of the head plant runs a crush check: its core has grown and the
\* growth since the last check has reached the threshold
CrushCheckRuns ==
  /\ HeadIsLivePlant
  /\ world'.heap[HeadPlant].core_radius > world.heap[HeadPlant].core_radius
  /\ world.heap[HeadPlant].core_growth_since_crush_check
       + world'.heap[HeadPlant].core_radius - world.heap[HeadPlant].core_radius
       >= PLANT_CRUSH_CHECK_GROWTH_THRESHOLD_CM

\* the centre of the plant h lies within the new core radius of the head plant
WithinNewCore(h) ==
  (world.heap[h].x - world.heap[HeadPlant].x) * (world.heap[h].x - world.heap[HeadPlant].x)
  + (world.heap[h].y - world.heap[HeadPlant].y) * (world.heap[h].y - world.heap[HeadPlant].y)
    < world'.heap[HeadPlant].core_radius * world'.heap[HeadPlant].core_radius

\* C26: when a crush check runs, a living neighbouring plant dies if and only
\* if its canopy radius is smaller than the new core radius of the growing
\* plant and its centre lies within that core radius; a neighbour whose canopy
\* radius is at least the core radius is never crushed.
C26_CrushOnlySmallerNeighbours ==
  [][ CrushCheckRuns =>
        \A h \in DOMAIN world.heap \ {HeadPlant} :
          (world.heap[h].is_alive /\ <<"plant", h>> \in world.quadtree)
            => ( ~world'.heap[h].is_alive
                   <=> ( /\ world.heap[h].radius < world'.heap[HeadPlant].core_radius
                         /\ WithinNewCore(h) ) ) ]_vars

(***************************************************************************)
(* Properties of the schedule, checked under SpecDelay.                    *)
(***************************************************************************)
\* the call that is running or has returned last is the one that advances the
\* world by four intervals after the postponed scheduling
PostponedCall ==
  /\ Len(world.heap) = 2
  /\ world.end_time - world.start_time = 4 * PLANT_LOGIC_UPDATE_INTERVAL_SECONDS

\* floor((now + delay) / interval) * interval for delay = 3 * interval
PostponedKey ==
  ((world.start_time + 3 * PLANT_LOGIC_UPDATE_INTERVAL_SECONDS)
     \div PLANT_LOGIC_UPDATE_INTERVAL_SECONDS) * PLANT_LOGIC_UPDATE_INTERVAL_SECONDS

\* C28: schedule places an organism in the bucket with key
\* floor((now + delay) / interval) * interval; an organism scheduled with
\* delay = 3 * interval and advanced over [now, now + 4 * interval) gets no tick
\* before that key and is ticked exactly once, at that key.
C28_PostponedTickedOnce ==
  PostponedCall =>
    /\ PlantObs[2].first_key = PostponedKey
    /\ PlantObs[2].ticks <= 1
    /\ PlantObs[2].ticks = 1 => PlantObs[2].last_key = PostponedKey
    /\ world.pc = "idle" => PlantObs[2].ticks = 1

\* now, the clock at which the organism was scheduled, is a multiple of the
\* interval
PostponedOnBoundary == world.start_time % PLANT_LOGIC_UPDATE_INTERVAL_SECONDS = 0

\* C28 as the code has it: the organism lies in the bucket with key
\* floor((now + 3 * interval) / interval) * interval and gets no tick before that
\* key; advanced over [now, now + 4 * interval) it is ticked exactly once, at that
\* key, when now is a multiple of the interval, and otherwise twice, at that key
\* and one interval later.
C28_PostponedTickedFromKey ==
  PostponedCall =>
    /\ PlantObs[2].first_key = PostponedKey
    /\ PlantObs[2].ticks > 0
         => PlantObs[2].last_key
              = PostponedKey + (PlantObs[2].ticks - 1) * PLANT_LOGIC_UPDATE_INTERVAL_SECONDS
    /\ PlantObs[2].ticks <= (IF PostponedOnBoundary THEN 1 ELSE 2)
    /\ world.pc = "idle" => PlantObs[2].ticks = (IF PostponedOnBoundary THEN 1 ELSE 2)

\* the call has returned after a scheduling at a clock that is a multiple of
\* the interval and later than the start of the world
C28_Witness ==
  /\ PostponedCall
  /\ PostponedOnBoundary
  /\ world.start_time > 0
  /\ world.pc = "idle"
  /\ PlantObs[2].ticks = 1
  /\ world.heap[2].is_alive

(***************************************************************************)
(* Properties of the energy budget of a growing plant, checked under       *)
(* SpecStand and Spec.                                                     *)
(***************************************************************************)
\* the tick that is about to be made takes a deficit from the reserves: a
\* growing plant with a negative balance and energy above the growth reserve
DeficitAbsorbed ==
  /\ HeadIsLivePlant
  /\ world.heap[HeadPlant].life_stage # "seed"
  /\ HeadBalance.net_energy_production < 0
  /\ world.heap[HeadPlant].energy > PLANT_GROWTH_INVESTMENT_ENERGY_RESERVE

CoreTooThin(plant) ==
  /\ circle_area(plant.radius) > 100
  /\ circle_area(plant.core_radius) * 100
       < PLANT_MIN_CORE_TO_CANOPY_RATIO * circle_area(plant.radius)

\* C32: a seedling or mature plant that a tick leaves alive has a canopy of at
\* most 1 cm2 or a core of at least the minimum viable ratio to its canopy; a
\* plant that ends its tick below the ratio, the tick in which it germinated
\* included, is dead after that tick and its death is reported.
C32_StructuralCheckAtEndOfTick ==
  [][ HeadIsLivePlant =>
        /\ ( world'.heap[HeadPlant].is_alive /\ world'.heap[HeadPlant].life_stage # "seed" )
             => ~CoreTooThin(world'.heap[HeadPlant])
        /\ ( world'.heap[HeadPlant].life_stage # "seed" /\ CoreTooThin(world'.heap[HeadPlant]) )
             => /\ ~world'.heap[HeadPlant].is_alive
                /\ TimesInGraveyard(world', <<"plant", HeadPlant>>) = 1 ]_vars

\* a plant has died of its core: after its tick it is dead with energy left,
\* a canopy that pruning has not taken and a core below the minimum ratio
C32_Witness ==
  \E h \in DOMAIN world.heap :
    /\ PlantObs[h].ticks = 1
    /\ ~world.heap[h].is_alive
    /\ world.heap[h].life_stage # "seed"
    /\ world.heap[h].energy > 0
    /\ world.heap[h].radius >= 10
    /\ CoreTooThin(world.heap[h])

\* the fruits of the head plant that are past their lifespan at its tick, in
\* the order of reproductive_organs
RipeFruits ==
  SelectSeq([i \in DOMAIN world.heap[HeadPlant].reproductive_organs |->
               organ_update(world.heap[HeadPlant].reproductive_organs[i],
                            PLANT_LOGIC_UPDATE_INTERVAL_SECONDS)],
            is_ready_to_drop)

\* the head plant as the growing-plant update of its tick leaves it
GrownPlant ==
  update_growing_plant(world, HeadPlant, PLANT_LOGIC_UPDATE_INTERVAL_SECONDS).heap[HeadPlant]

\* the tick that is about to be made looks at the fruits of the plant
FruitsAreUpdated ==
  /\ HeadIsLivePlant
  /\ world.heap[HeadPlant].life_stage # "seed"
  /\ GrownPlant.is_alive
  /\ GrownPlant.life_stage = "mature"

\* the number of fruits the step has dropped
Dropped == Len(world'.obs.dropped) - Len(world.obs.dropped)

\* C33: the fruits past their lifespan drop in the order of the collection:
\* each is turned into a dispersal attempt and removed from
\* reproductive_organs; the loop stops before the first fruit that finds the
\* energy of the plant below PLANT_SEED_PROVISIONING_ENERGY, the fruits from
\* there on stay on the plant, and the fruits dropped before stay removed, the
\* plant having paid the provisioning energy for every seed created and got
\* nothing back.
C33_RipeFruitsDropUntilEnergyLow ==
  [][ FruitsAreUpdated =>
        /\ Dropped \in 0..Len(RipeFruits)
        /\ world'.obs.dropped
             = world.obs.dropped \o [i \in 1..Dropped |-> RipeFruits[i].landing]
        /\ Len(world'.heap[HeadPlant].reproductive_organs)
             = Len(world.heap[HeadPlant].reproductive_organs) - Dropped
        /\ SelectSeq(world'.heap[HeadPlant].reproductive_organs, is_ready_to_drop)
             = SubSeq(RipeFruits, Dropped + 1, Len(RipeFruits))
        /\ Dropped < Len(RipeFruits)
             => world'.heap[HeadPlant].energy < PLANT_SEED_PROVISIONING_ENERGY
        /\ Cardinality(Created) <= Dropped
        /\ world'.heap[HeadPlant].energy
             = GrownPlant.energy - PLANT_SEED_PROVISIONING_ENERGY * Cardinality(Created) ]_vars

\* a plant with two ripe fruits has dropped the first, paid for its seed, and
\* kept the second because the energy left does not pay for another seed
C33_Witness ==
  /\ PlantObs[1].ticks = 1
  /\ world.heap[1].is_alive
  /\ world.obs.dropped = <<3>>
  /\ Len(world.heap) = 3
  /\ Len(world.heap[1].reproductive_organs) = 1
  /\ is_ready_to_drop(world.heap[1].reproductive_organs[1])
  /\ world.heap[1].reproductive_organs[1].landing = 5
  /\ world.heap[1].energy < PLANT_SEED_PROVISIONING_ENERGY

(***************************************************************************)
(* Further properties of the plant store, checked under SpecStore.         *)
(***************************************************************************)
\* the store as it was when the last call was made
StoreBefore == LastCall.plant_manager

\* C34: add_plant gives the new plant the index that was the count before the
\* call and raises count by exactly one; when count was equal to capacity the
\* capacity of every column is doubled first, otherwise it stays; the plants
\* of the rows [0, old count) keep their index, their slot of the list and
\* every value of their row; and count <= capacity in every state.
C34_AddAppendsAtCount ==
  /\ world.plant_manager.count <= world.plant_manager.capacity
  /\ DOMAIN world.plant_manager.arrays = 0..(world.plant_manager.capacity - 1)
  /\ ( LastCall.op = "add" /\ world.raised = "none" )
       => /\ world.heap[LastCall.p].index = StoreBefore.count
          /\ world.plant_manager.count = StoreBefore.count + 1
          /\ world.plant_manager.plants[StoreBefore.count + 1] = LastCall.p
          /\ world.plant_manager.capacity
               = IF StoreBefore.count = StoreBefore.capacity
                 THEN 2 * StoreBefore.capacity ELSE StoreBefore.capacity
          /\ \A i \in 0..(StoreBefore.count - 1) :
               /\ world.plant_manager.arrays[i] = StoreBefore.arrays[i]
               /\ world.plant_manager.plants[i + 1] = StoreBefore.plants[i + 1]
               /\ world.heap[StoreBefore.plants[i + 1]].index
                    = LastCall.index[StoreBefore.plants[i + 1]]

\* a plant has been added to a full store that held plants at different
\* positions
C34_Witness ==
  /\ LastCall.op = "add"
  /\ world.raised = "none"
  /\ StoreBefore.count = StoreBefore.capacity
  /\ StoreBefore.count >= 2
  /\ StoreBefore.arrays[0].positions # StoreBefore.arrays[1].positions
  /\ world.plant_manager.count = StoreBefore.count + 1

(***************************************************************************)
(* Properties of the age and the schedule of a plant, checked under Spec.  *)
(***************************************************************************)
\* the bucket boundary at or before the time t
Boundary(t) ==
  (t \div PLANT_LOGIC_UPDATE_INTERVAL_SECONDS) * PLANT_LOGIC_UPDATE_INTERVAL_SECONDS

\* no age decreases in the step and the plant that is ticked ages by one
\* interval
AgesByInterval ==
  /\ \A h \in DOMAIN world.heap : world'.heap[h].age >= world.heap[h].age
  /\ HeadIsLivePlant
       => world'.heap[HeadPlant].age
            = world.heap[HeadPlant].age + PLANT_LOGIC_UPDATE_INTERVAL_SECONDS

TimesInBucket(w, key, h) ==
  Cardinality({i \in DOMAIN w.plant_update_schedule[key] :
                 w.plant_update_schedule[key][i] = h})

\* the buckets of plant_update_schedule in which the plant h lies
BucketsOf(w, h) ==
  {key \in DOMAIN w.plant_update_schedule : TimesInBucket(w, key, h) > 0}

\* how often the plant h waits in the list popped from the drained bucket
TimesPending(w, h) ==
  Cardinality({i \in DOMAIN w.creatures_to_update :
                 w.creatures_to_update[i] = <<"plant", h>>})

\* the plant h lies in exactly one bucket, once
ScheduledOnce(w, h) ==
  /\ Cardinality(BucketsOf(w, h)) = 1
  /\ \A key \in BucketsOf(w, h) : TimesInBucket(w, key, h) = 1

\* every living plant lies once in one bucket, or once in the list popped
\* from the drained bucket and in no bucket; every key is a multiple of the
\* interval
PlantsScheduledOnce(w) ==
  /\ \A h \in DOMAIN w.heap :
       w.heap[h].is_alive
         => \/ ScheduledOnce(w, h) /\ TimesPending(w, h) = 0
            \/ BucketsOf(w, h) = {} /\ TimesPending(w, h) = 1 /\ w.pc = "events"
  /\ \A key \in DOMAIN w.plant_update_schedule :
       key % PLANT_LOGIC_UPDATE_INTERVAL_SECONDS = 0

\* C36: between ticks every living plant that has been scheduled (the initial
\* plant and every newborn) lies in exactly one bucket of
\* plant_update_schedule and exactly once in it (while the popped bucket is
\* worked through, in the popped list instead); every bucket key is a multiple
\* of the plant interval, and once a bucket has been drained every key that
\* remains is greater than the clock.
C36_EveryLivePlantScheduledOnce ==
  [][ /\ PlantsScheduledOnce(world')
      /\ ( world.pc = "events" /\ world'.pc = "events" )
           => \A key \in DOMAIN world'.plant_update_schedule : key > world'.time ]_vars

\* two living plants that have been ticked from the same bucket wait in one
\* bucket for their next tick while no call is running
C36_Witness ==
  /\ world.pc = "idle"
  /\ Len(world.heap) = 2
  /\ \A h \in DOMAIN world.heap : world.heap[h].is_alive /\ PlantObs[h].ticks >= 1
  /\ BucketsOf(world, 1) = BucketsOf(world, 2)
  /\ PlantsScheduledOnce(world)

(***************************************************************************)
(* Properties of the allocation of a surplus, checked under SpecTick.      *)
(***************************************************************************)
\* the tick that is about to be made allocates a surplus: a growing plant
\* with a net energy of at least 0
SurplusAllocated ==
  /\ HeadIsLivePlant
  /\ world.heap[HeadPlant].life_stage # "seed"
  /\ HeadBalance.net_energy_production >= 0

\* what the step has taken from the stored energy of the head plant for
\* growth: the energy before the tick and the net energy that line 513 adds,
\* less the energy after the tick and what was paid for the seeds created
Withdrawn ==
  world.heap[HeadPlant].energy + HeadBalance.net_energy_production
    - ( world'.heap[HeadPlant].energy
        + PLANT_SEED_PROVISIONING_ENERGY * Cardinality(Created) )

\* the investment _allocate_surplus_energy wishes to make in one plant tick
DesiredInvestment ==
  per_hour(PLANT_GROWTH_INVESTMENT_J_PER_HOUR, PLANT_LOGIC_UPDATE_INTERVAL_SECONDS)

\* C37: the investment in growth does not lower the energy of a plant below
\* PLANT_GROWTH_INVESTMENT_ENERGY_RESERVE: nothing is withdrawn when the
\* energy is at most the reserve, and otherwise at most the smaller of the
\* desired investment of the tick and the energy above the reserve.
C37_InvestmentLeavesReserve ==
  [][ SurplusAllocated =>
        /\ Withdrawn >= 0
        /\ world.heap[HeadPlant].energy <= PLANT_GROWTH_INVESTMENT_ENERGY_RESERVE
             => Withdrawn = 0
        /\ world.heap[HeadPlant].energy > PLANT_GROWTH_INVESTMENT_ENERGY_RESERVE
             => /\ Withdrawn <= DesiredInvestment
                /\ Withdrawn
                     <= world.heap[HeadPlant].energy - PLANT_GROWTH_INVESTMENT_ENERGY_RESERVE
                /\ world.heap[HeadPlant].energy - Withdrawn
                     >= PLANT_GROWTH_INVESTMENT_ENERGY_RESERVE ]_vars

\* a plant that held less than the desired investment above the reserve has
\* invested all of it: after its tick it has grown and holds the reserve and
\* the net energy of the tick
C37_Witness ==
  /\ PlantObs[1].ticks = 1
  /\ world.heap[1].is_alive
  /\ world.heap[1].life_stage = "mature"
  /\ world.heap[1].core_radius > PLANT_SPROUT_CORE_RADIUS_CM
  /\ world.heap[1].energy > PLANT_GROWTH_INVESTMENT_ENERGY_RESERVE
  /\ world.heap[1].energy < PLANT_GROWTH_INVESTMENT_ENERGY_RESERVE + 500000

(***************************************************************************)
(* Properties of the rows of the store, checked under SpecSlots.           *)
(***************************************************************************)
\* the row of the store and the plant object agree on energy, age, radii,
\* height and the results of the competition
RowDescribes(row, plant) ==
  /\ row.energies = plant.energy
  /\ row.ages = plant.age
  /\ row.radii = plant.radius
  /\ row.root_radii = plant.root_radius
  /\ row.core_radii = plant.core_radius
  /\ row.heights = plant.height
  /\ row.positions = <<plant.x, plant.y>>
  /\ row.shaded_canopy_areas = plant.shaded_canopy_area
  /\ row.overlapped_root_areas = plant.overlapped_root_area

\* C38: every used row of the store describes the plant in its slot: also
\* after add_plant has put a plant into a row that another plant has left or
\* that the growth of the columns has filled, shaded_canopy_areas and
\* overlapped_root_areas of the row are the cached values of the plant (0 for
\* a new seed).
C38_RowDescribesPlant ==
  \A i \in 0..(world.plant_manager.count - 1) :
    i < Len(world.plant_manager.plants)
      => RowDescribes(RowOf(world, i), PlantAt(world, i))

(***************************************************************************)
(* Properties of the dormancy of a seed, checked under SpecDormant.        *)
(***************************************************************************)
\* the tick that is about to be made is the tick of a living seed
SeedIsTicked ==
  /\ HeadIsLivePlant
  /\ world.heap[HeadPlant].life_stage = "seed"

\* the seed the loop is about to tick meets the germination gate
GateIsMet ==
  /\ GERMINATION_MIN_TEMP <= world.heap[HeadPlant].temperature
  /\ world.heap[HeadPlant].temperature <= GERMINATION_MAX_TEMP
  /\ world.heap[HeadPlant].humidity >= GERMINATION_HUMIDITY_THRESHOLD

\* the tick of a seed takes the dormancy cost, which is positive, from its
\* energy; the seed dies when that leaves no energy, germinates when the gate
\* is met and the energy left pays for sprouting, and stays a living seed
\* otherwise
SeedTickPaysDormancy ==
  SeedIsTicked =>
    /\ DormancyCost > 0
    /\ world'.heap[HeadPlant].is_alive = (world.heap[HeadPlant].energy > DormancyCost)
    /\ world'.heap[HeadPlant].life_stage = "seed"
         => world'.heap[HeadPlant].energy = world.heap[HeadPlant].energy - DormancyCost
    /\ ( world'.heap[HeadPlant].life_stage # "seed" )
         = ( /\ GateIsMet
             /\ world.heap[HeadPlant].energy - DormancyCost >= PLANT_SPROUTING_ENERGY_COST )

\* C39: every seed leaves the seed stage after finitely many ticks: each tick
\* takes a positive dormancy cost from its energy, so under repeated calls of
\* update_in_bulk it germinates or its energy reaches 0 or less and it dies;
\* a seed that meets the germination gate with less energy than the sprouting
\* cost stays a seed until it dies.
C39_SeedGerminatesOrDies ==
  /\ [][SeedTickPaysDormancy]_vars
  /\ <>( world.heap[1].life_stage # "seed" \/ ~world.heap[1].is_alive )

\* a seed on ground where it could germinate has died as a seed after more
\* than one tick, its energy used up by dormancy
C39_Witness ==
  /\ world.heap[1].site = 1
  /\ world.heap[1].life_stage = "seed"
  /\ ~world.heap[1].is_alive
  /\ world.heap[1].energy <= 0
  /\ PlantObs[1].ticks >= 2

\* what _allocate_surplus_energy takes from the reserves of the head plant:
\* the smaller of the desired investment and the energy above the reserve
FromReserves ==
  IF world.heap[HeadPlant].energy > PLANT_GROWTH_INVESTMENT_ENERGY_RESERVE
  THEN Min(DesiredInvestment,
           world.heap[HeadPlant].energy - PLANT_GROWTH_INVESTMENT_ENERGY_RESERVE)
  ELSE 0

\* the pool the tick spends on new biomass
GrowthPool == HeadBalance.net_energy_production + FromReserves

\* the core radius and the canopy radius that the pool buys
CoreBought ==
  radius_of_area(HeadBalance.core_area
                 + core_investment(GrowthPool, HeadBalance.canopy_area, HeadBalance.core_area)
                     \div PLANT_CORE_BIOMASS_ENERGY_COST)

CanopyBought ==
  radius_of_area(
    HeadBalance.canopy_area
    + ((canopy_root_investment(GrowthPool, HeadBalance.canopy_area, HeadBalance.core_area)
          \div PLANT_BIOMASS_ENERGY_COST)
       * read_column(world, HeadPlant, "soil_efficiencies"))
      \div (read_column(world, HeadPlant, "environmental_efficiencies")
            + read_column(world, HeadPlant, "soil_efficiencies")))

\* C40: in a tick with a net energy of at least 0 the stored energy after the
\* growing-plant update is the energy before it, less the investment taken
\* from the reserves, plus the whole net energy production, while the new
\* biomass of the same tick is what the pool of the net energy production and
\* the investment from the reserves buys: the surplus is spent on growth and
\* added to the stored energy as well.
C40_SurplusSpentAndStored ==
  [][ ( /\ SurplusAllocated
        /\ read_column(world, HeadPlant, "environmental_efficiencies")
             + read_column(world, HeadPlant, "soil_efficiencies") > 0 )
      => /\ world'.heap[HeadPlant].energy
              + PLANT_SEED_PROVISIONING_ENERGY * Cardinality(Created)
            = world.heap[HeadPlant].energy - FromReserves
              + HeadBalance.net_energy_production
         /\ GrowthPool > 0
              => /\ world'.heap[HeadPlant].core_radius = CoreBought
                 /\ canopy_root_investment(GrowthPool, HeadBalance.canopy_area,
                                           HeadBalance.core_area) > 0
                      => world'.heap[HeadPlant].radius = CanopyBought ]_vars

\* a plant with 13 J above the reserve and a positive net energy has been
\* ticked: the 13 J alone buy no core, the 13 J and the surplus together buy
\* the smallest step of it, and the plant holds the reserve and the surplus
C40_Witness ==
  /\ PlantObs[1].ticks = 1
  /\ world.heap[1].is_alive
  /\ world.heap[1].life_stage = "mature"
  /\ core_investment(13000, circle_area(PLANT_SPROUT_RADIUS_CM),
                     circle_area(PLANT_SPROUT_CORE_RADIUS_CM))
       < PLANT_CORE_BIOMASS_ENERGY_COST
  /\ world.heap[1].core_radius
       = radius_of_area(circle_area(PLANT_SPROUT_CORE_RADIUS_CM) + 1)
  /\ world.heap[1].core_radius > PLANT_SPROUT_CORE_RADIUS_CM
  /\ world.heap[1].energy > PLANT_GROWTH_INVESTMENT_ENERGY_RESERVE
  /\ world.heap[1].energy < PLANT_GROWTH_INVESTMENT_ENERGY_RESERVE + 13000

=============================================================================
